---- MODULE Spec2Model ----
(***************************************************************************)
(* Model of the resume analysis pipeline of server.js: keyword extraction, *)
(* the heuristic ATS score, the OpenAI client with retries and the         *)
(* /api/analyze response normalisation. server.js holds three listings of  *)
(* the server; the model is of the first one (lines 1 to 860), the one     *)
(* with the retrying client.                                               *)
(*                                                                         *)
(* Text is a sequence of characters, each character a one-character        *)
(* string (the three Unicode dashes are written "U+2012" .. "U+2014").     *)
(***************************************************************************)
EXTENDS Integers, Sequences, FiniteSets, TLC

VARIABLES
    COMMON_STOPWORDS,   \* the module-level stop-word Set
    SKILLS_LIST,        \* the module-level skill array
    env,                \* process.env: OPENAI_MOCK and whether OPENAI_API_KEY is set
    uploadsDir,         \* the requests whose multer temp file is in UPLOADS_DIR
    pc,                 \* per request: where its handler stands
    upload,             \* per request: req.file while its text is being extracted
    extractor,          \* per request: the extractors invoked on its upload, with the file's names
    reqText,            \* per request: the handler's `text`
    reqKw,              \* per request: the handler's `kw`, once computed
    call,               \* per request: the locals of callOpenAIWithRetries
    fetches,            \* per request: the fetch calls issued to the provider
    provLog,            \* per request: how the provider answered each fetch
    waits,              \* per request: the sleep calls made
    outcome,            \* per request: what callOpenAIWithRetries returned
    resp,               \* per request: the response sent
    arg,                \* direct call of a pure helper: its arguments
    ret,                \* direct call of a pure helper: its return value
    applying,           \* per request: the parameters of its /api/jobs/:jobId/apply request
    resumesDir,         \* the requests whose resume file is in RESUMES_DIR
    applications,       \* job.applications of the one job posted
    users,              \* the module-level array of registered users
    authReq,            \* the last /api/auth request: its route and body
    authResp            \* the response to it

vocabulary == <<COMMON_STOPWORDS, SKILLS_LIST>>

\* a variant in which handling a request adds words to the stop-word Set
VocabularyLearns ==
    /\ COMMON_STOPWORDS' = COMMON_STOPWORDS \cup {"engineer", "scalable"}
    /\ UNCHANGED SKILLS_LIST

\* COMMON_STOPWORDS and SKILLS_LIST are module-level constants: no handler calls
\* add, delete, push or splice on them
VocabularyFrozen == UNCHANGED vocabulary

requestVars ==
    <<uploadsDir, pc, upload, extractor, reqText, reqKw, call, fetches, provLog, waits, outcome,
      resp>>

\* the state of the job and auth routes
elsewhere == <<applying, resumesDir, applications, users, authReq, authResp>>

\* the state of the analysis pipeline of the requests
analysisVars == <<extractor, reqText, reqKw, call, fetches, provLog, waits, outcome>>

\* the state of the auth routes
authVars == <<users, authReq, authResp>>

vars == <<COMMON_STOPWORDS, SKILLS_LIST, env, uploadsDir, pc, upload, extractor, reqText, reqKw,
          call, fetches, provLog, waits, outcome, resp, arg, ret,
          applying, resumesDir, applications, users, authReq, authResp>>

\* A JavaScript value that may be undefined or null: <<>> or <<value>>
Undefined == <<>>

Defined(v) == <<v>>

IsDefined(o) == Len(o) = 1

Range(s) == {s[k] : k \in DOMAIN s}

Min(a, b) == IF a < b THEN a ELSE b

----------------------------------------------------------------------------
(* Characters and strings *)

LowerLetters ==
    <<"a","b","c","d","e","f","g","h","i","j","k","l","m",
      "n","o","p","q","r","s","t","u","v","w","x","y","z">>

UpperLetters ==
    <<"A","B","C","D","E","F","G","H","I","J","K","L","M",
      "N","O","P","Q","R","S","T","U","V","W","X","Y","Z">>

DigitChars == {"0","1","2","3","4","5","6","7","8","9"}

\* \w of a JavaScript regular expression: [A-Za-z0-9_]
IsWordChar(c) == c \in Range(LowerLetters) \cup Range(UpperLetters) \cup DigitChars \cup {"_"}

\* \s of a JavaScript regular expression, for the characters the model uses
IsWhitespace(c) == c \in {" ", "\t", "\n"}

\* String.prototype.toLowerCase on one character
toLowerCase(c) ==
    IF \E k \in DOMAIN UpperLetters : UpperLetters[k] = c
    THEN LowerLetters[CHOOSE k \in DOMAIN UpperLetters : UpperLetters[k] = c]
    ELSE c

\* the string made of the characters cs (only to compare with string literals)
RECURSIVE Str(_)
Str(cs) == IF cs = <<>> THEN "" ELSE Head(cs) \o Str(Tail(cs))

\* e evaluated once and handed to F as a value
Let1(e, F(_)) == CHOOSE r \in {F(v) : v \in {e}} : TRUE

\* the indexes of s, in order, that satisfy Keep
Indexes(s, Keep(_)) == SelectSeq([k \in 1..Len(s) |-> k], Keep)

\* s.split(/\s+/).filter(Boolean): the maximal runs of non-whitespace
SplitWhitespace(s) ==
    LET n == Len(s)
        IsStart(k) == ~IsWhitespace(s[k]) /\ (k = 1 \/ IsWhitespace(s[k - 1]))
        IsEnd(k) == ~IsWhitespace(s[k]) /\ (k = n \/ IsWhitespace(s[k + 1]))
    IN  Let1(Indexes(s, IsStart), LAMBDA starts :
        Let1(Indexes(s, IsEnd), LAMBDA ends :
            [j \in 1..Len(starts) |-> SubSeq(s, starts[j], ends[j])]))

\* array.join(sep) for an array of strings (character sequences)
RECURSIVE Join(_, _)
Join(parts, sep) ==
    IF parts = <<>> THEN <<>>
    ELSE IF Len(parts) = 1 THEN parts[1]
    ELSE parts[1] \o sep \o Join(Tail(parts), sep)

\* array.filter((v, i, a) => a.indexOf(v) === i)
FirstOccurrences(a) ==
    LET IsFirst(i) == \A j \in 1..(i - 1) : a[j] # a[i]
    IN  Let1(Indexes(a, IsFirst), LAMBDA idx : [j \in 1..Len(idx) |-> a[idx[j]]])

\* a slice that keeps one entry too many
SliceToOneMore(a, n) == SubSeq(a, 1, Min(Len(a), n + 1))

\* array.slice(0, n)
SliceTo(a, n) == SubSeq(a, 1, Min(Len(a), n))

----------------------------------------------------------------------------
(* Vocabulary store *)

StopwordsAtLoad ==
    {"a","an","the","and","or","of","to","in","on","for","with","by","as","is","are","was","were",
     "be","been","has","have","had","that","this","these","those","at","from","it","its","but","not",
     "can","will","would","should","i","you","he","she","they","we","my","your","our","their","them",
     "which","who","what","when","where","how","about","into","over","after","before","during","per"}

SkillsAtLoad ==
    <<"javascript","typescript","react","react.js","react-native","vue","angular","node.js","node","express",
      "html","css","tailwind","bootstrap","redux","graphql","rest","api","mongodb","mysql","postgresql",
      "docker","kubernetes","aws","azure","gcp","git","github","gitlab","jest","mocha","cypress","selenium",
      "python","pandas","numpy","scikit-learn","tensorflow","pytorch","java","c++","c#","php","ruby",
      "machine learning","nlp","data analysis","sql","linux","bash","figma","photoshop","ui/ux","leadership",
      "communication","agile","scrum","devops","testing","ci/cd","performance","optimization","security">>

----------------------------------------------------------------------------
(* Keyword extraction *)

\* text.replace(/[U+2012 U+2013 U+2014]/g, "-")
ReplaceDashes(text) ==
    [k \in 1..Len(text) |->
        IF text[k] \in {"U+2012", "U+2013", "U+2014"} THEN "-" ELSE text[k]]

\* text.replace(/[^\w\- ]+/g, " "): every maximal run of characters that are
\* neither word characters, '-' nor ' ' becomes one space
ReplaceNonWord(text) ==
    LET Allowed(c) == IsWordChar(c) \/ c = "-" \/ c = " "
        Kept(k) == Allowed(text[k]) \/ k = 1 \/ Allowed(text[k - 1])
    IN  Let1(Indexes(text, Kept), LAMBDA idx :
            [j \in 1..Len(idx) |-> IF Allowed(text[idx[j]]) THEN text[idx[j]] ELSE " "])

\* text.toLowerCase()
LowerCased(text) == [k \in 1..Len(text) |-> toLowerCase(text[k])]

tokenizeForKeywords(text) ==
    Let1(ReplaceDashes(text), LAMBDA dashed :
    Let1(ReplaceNonWord(dashed), LAMBDA stripped :
    Let1(LowerCased(stripped), LAMBDA lowered :
        SplitWhitespace(lowered))))

\* /^\d+$/.test(t), t given by its characters
AllDigits(t) == Len(t) > 0 /\ \A k \in 1..Len(t) : t[k] \in DigitChars

\* A JavaScript Map is the sequence of its <<key, value>> entries in insertion order
MapHas(m, key) == \E k \in 1..Len(m) : m[k][1] = key

\* The Map that `for (x of items) m.set(x, (m.get(x) || 0) + 1)` builds from an
\* empty one: a key per distinct item, in first-insertion order, with its count
CountMap(items) ==
    Let1(FirstOccurrences(items), LAMBDA keys :
        [j \in 1..Len(keys) |->
            <<keys[j], Cardinality({k \in 1..Len(items) : items[k] = keys[j]})>>])

\* a sort that puts the later of two entries with equal counts first
SortByCountDescTiesReversed(entries) ==
    LET n == Len(entries)
        Position(j) == Cardinality({k \in 1..n : entries[k][2] > entries[j][2]})
                       + Cardinality({k \in (j + 1)..n : entries[k][2] = entries[j][2]}) + 1
    IN  Let1([j \in 1..n |-> Position(j)], LAMBDA pos :
            [p \in 1..n |-> entries[CHOOSE j \in 1..n : pos[j] = p]])

\* Array.prototype.sort((a, b) => b[1] - a[1]) on entries: stable, count descending
SortByCountDesc(entries) ==
    LET n == Len(entries)
        Position(j) == Cardinality({k \in 1..n : entries[k][2] > entries[j][2]})
                       + Cardinality({k \in 1..(j - 1) : entries[k][2] = entries[j][2]}) + 1
    IN  Let1([j \in 1..n |-> Position(j)], LAMBDA pos :
            [p \in 1..n |-> entries[CHOOSE j \in 1..n : pos[j] = p]])

\* the tokens the first loop of extractKeywords counts, in order
CountedTokens(tokens) ==
    LET Counted(k) == ~(Len(tokens[k]) < 2 \/ AllDigits(tokens[k])
                        \/ Str(tokens[k]) \in COMMON_STOPWORDS)
    IN  Let1(Indexes(tokens, Counted), LAMBDA idx : [j \in 1..Len(idx) |-> tokens[idx[j]]])

\* words.slice(i, i + n).join(" ") for the 0-based window start i and length n
Phrase(words, i, n) == Join(SubSeq(words, i + 1, i + n), <<" ">>)

\* the phrases for which the skill loops call foundSkills.set, in loop order
\* (i ascending, then n = 1..3 while i + n <= words.length)
MatchedPhrases(words) ==
    LET len == Len(words)
        StartOf(w) == (w - 1) \div 3
        SizeOf(w) == ((w - 1) % 3) + 1
        Matches(w) ==
            /\ StartOf(w) + SizeOf(w) <= len
            /\ ~(Len(Phrase(words, StartOf(w), SizeOf(w))) < 2)
            \* SKILLS_LIST.includes(phrase)
            /\ Str(Phrase(words, StartOf(w), SizeOf(w))) \in Range(SKILLS_LIST)
    IN  Let1(SelectSeq([w \in 1..(3 * len) |-> w], Matches), LAMBDA hits :
            [j \in 1..Len(hits) |-> Phrase(words, StartOf(hits[j]), SizeOf(hits[j]))])

\* the loop that fills topFrequent: the entries that pass both tests, until
\* maxFreqTokens of them are pushed (the length test follows the push)
TopFrequent(freqEntries, foundSkills, maxFreqTokens) ==
    LET Eligible(k) == ~MapHas(foundSkills, freqEntries[k][1])
                       /\ ~(Len(freqEntries[k][1]) <= 2)
    IN  Let1(Indexes(freqEntries, Eligible), LAMBDA idx :
            SliceTo([j \in 1..Len(idx) |-> freqEntries[idx[j]]],
                    IF maxFreqTokens < 1 THEN 1 ELSE maxFreqTokens))

DefaultMaxFreqTokens == 12

MaxKeywords == 30

\* extractKeywords(text, opts); maxFreqTokensOpt = 0 stands for an absent opts.maxFreqTokens
extractKeywordsOpts(text, maxFreqTokensOpt) ==
    Let1(tokenizeForKeywords(text), LAMBDA tokens :
    Let1(CountedTokens(tokens), LAMBDA counted :
    Let1(CountMap(counted), LAMBDA freq :
    Let1(SortByCountDesc(freq), LAMBDA freqEntries :
    Let1(MatchedPhrases(tokens), LAMBDA phrases :
    Let1(CountMap(phrases), LAMBDA foundSkills :
    Let1(IF maxFreqTokensOpt # 0 THEN maxFreqTokensOpt ELSE DefaultMaxFreqTokens,
         LAMBDA maxFreqTokens :
    Let1(TopFrequent(freqEntries, foundSkills, maxFreqTokens), LAMBDA topFrequent :
    Let1(SortByCountDesc(foundSkills), LAMBDA sortedSkills :
    Let1([k \in 1..Len(sortedSkills) |-> sortedSkills[k][1]], LAMBDA skillList :
    Let1([k \in 1..Len(topFrequent) |-> topFrequent[k][1]], LAMBDA topTokens :
    Let1(skillList \o topTokens, LAMBDA both :
    Let1(FirstOccurrences(both), LAMBDA combined :
        [keywords |-> SliceTo(combined, MaxKeywords),
         skillsFound |-> skillList,
         topTokens |-> SliceTo(topTokens, MaxKeywords)])))))))))))))

extractKeywords(text) == extractKeywordsOpts(text, 0)

----------------------------------------------------------------------------
(* ATS score heuristic *)

BaseScore == 40

ScoreFloor == 30

\* a ceiling mistyped below the floor
ScoreCeilingMistyped == ScoreFloor - 5

ScoreCeiling == 95

\* a variant whose length bonuses start at 150 and 300 words
estimateAtsScoreFromAtLeast(text, kw) ==
    LET words == SplitWhitespace(IF IsDefined(text) THEN text[1] ELSE <<>>)
        length == Len(words)
        keywordCount == IF IsDefined(kw) THEN Len(kw[1].keywords) ELSE 0
        s1 == BaseScore + (IF length >= 150 THEN 10 ELSE 0)
        s2 == s1 + (IF length >= 300 THEN 10 ELSE 0)
        s3 == s2 + (IF keywordCount > 5 THEN 10 ELSE 0)
        s4 == s3 + (IF keywordCount > 10 THEN 10 ELSE 0)
        s5 == s4 + (IF keywordCount > 15 THEN 10 ELSE 0)
        s6 == IF s5 < ScoreFloor THEN ScoreFloor ELSE s5
    IN  IF s6 > ScoreCeiling THEN ScoreCeiling ELSE s6

\* estimateAtsScoreFromText(text, kw). Either argument may be undefined: each is
\* given as Undefined or Defined(value)
estimateAtsScoreFromText(text, kw) ==
    LET words == SplitWhitespace(IF IsDefined(text) THEN text[1] ELSE <<>>)
        length == Len(words)
        keywordCount == IF IsDefined(kw) THEN Len(kw[1].keywords) ELSE 0
        s1 == BaseScore + (IF length > 150 THEN 10 ELSE 0)
        s2 == s1 + (IF length > 300 THEN 10 ELSE 0)
        s3 == s2 + (IF keywordCount > 5 THEN 10 ELSE 0)
        s4 == s3 + (IF keywordCount > 10 THEN 10 ELSE 0)
        s5 == s4 + (IF keywordCount > 15 THEN 10 ELSE 0)
        s6 == IF s5 < ScoreFloor THEN ScoreFloor ELSE s5
    IN  IF s6 > ScoreCeiling THEN ScoreCeiling ELSE s6

----------------------------------------------------------------------------
(* JavaScript values, JSON.parse and JSON.stringify *)

\* A number is finite (n thousandths), infinite (n is its sign) or NaN
JNumber(n) == [t |-> "number", kind |-> "finite", n |-> n]

JInteger(i) == JNumber(i * 1000)

JInfinity(sign) == [t |-> "number", kind |-> "infinite", n |-> sign]

JNaN == [t |-> "number", kind |-> "nan", n |-> 0]

JString(chars) == [t |-> "string", chars |-> chars]

\* a string literal of the source or a template part, kept whole as one element
JText(literal) == JString(<<literal>>)

JBool(b) == [t |-> "boolean", b |-> b]

JNull == [t |-> "null"]

\* an array: its elements and the named properties set on it
JArray(items, props) == [t |-> "array", items |-> items, props |-> props]

\* an object: its <<key, value>> entries in insertion order
JObject(entries) == [t |-> "object", entries |-> entries]

\* an array of strings, as extractKeywords returns them
JStrings(list) == JArray([k \in 1..Len(list) |-> JString(list[k])], <<>>)

IsJsonWhitespace(c) == c \in {" ", "\t", "\n", "\r"}

\* the first position >= p of s that Test accepts, Len(s) + 1 if there is none
FirstFrom(s, p, Test(_)) ==
    IF \E q \in p..Len(s) : Test(s[q])
    THEN CHOOSE q \in p..Len(s) : Test(s[q]) /\ \A q2 \in p..(q - 1) : ~Test(s[q2])
    ELSE Len(s) + 1

SkipWhitespace(s, p) == FirstFrom(s, p, LAMBDA c : ~IsJsonWhitespace(c))

DigitValue(c) == CHOOSE d \in 0..9 : ToString(d) = c

\* the value of a run of decimal digits
RECURSIVE DigitsValue(_, _)
DigitsValue(ds, acc) ==
    IF ds = <<>> THEN acc
    ELSE Let1(10 * acc + DigitValue(Head(ds)), LAMBDA v : DigitsValue(Tail(ds), v))

RECURSIVE Pow10(_)
Pow10(e) == IF e = 0 THEN 1 ELSE 10 * Pow10(e - 1)

IsDigits(ds) == \A k \in 1..Len(ds) : ds[k] \in DigitChars

\* exponents above this give Infinity for a non-zero mantissa (Number.MAX_VALUE ~ 1.8e308)
MaxDoubleExponent == 308

\* The number a decimal literal -?int(.frac)?(e[+-]?exp)? denotes, Undefined when
\* the characters are no such literal. Fractions keep three digits.
DecimalLiteral(cs, allowLeadingZeros) ==
    LET neg == cs # <<>> /\ cs[1] = "-"
        body == IF neg THEN Tail(cs) ELSE cs
        ePos == FirstFrom(body, 1, LAMBDA c : c \in {"e", "E"})
        mant == SubSeq(body, 1, ePos - 1)
        expPart == SubSeq(body, ePos + 1, Len(body))
        expNeg == expPart # <<>> /\ expPart[1] = "-"
        expDigits == IF expPart # <<>> /\ expPart[1] \in {"+", "-"} THEN Tail(expPart) ELSE expPart
        dot == FirstFrom(mant, 1, LAMBDA c : c = ".")
        int == SubSeq(mant, 1, dot - 1)
        frac == SubSeq(mant, dot + 1, Len(mant))
        wellFormed ==
            /\ int # <<>> /\ IsDigits(int)
            /\ allowLeadingZeros \/ Len(int) = 1 \/ int[1] # "0"
            /\ dot <= Len(mant) => (frac # <<>> /\ IsDigits(frac))
            /\ ePos <= Len(body) => (expDigits # <<>> /\ IsDigits(expDigits))
        frac3 == SubSeq(frac \o <<"0", "0", "0">>, 1, 3)
        magnitude == DigitsValue(int, 0) * 1000 + DigitsValue(frac3, 0)
        exp == IF ePos <= Len(body) THEN DigitsValue(expDigits, 0) ELSE 0
        sign == IF neg THEN -1 ELSE 1
    IN  IF ~wellFormed THEN Undefined
        ELSE IF magnitude = 0 \/ exp = 0 THEN Defined(JNumber(sign * magnitude))
        ELSE IF expNeg THEN Defined(JNumber(sign * (magnitude \div Pow10(exp))))
        ELSE IF exp + Len(int) > MaxDoubleExponent + 1 THEN Defined(JInfinity(sign))
        ELSE Defined(JNumber(sign * magnitude * Pow10(exp)))

\* A parse step returns [ok, v, next]: whether a value starts at the position, the
\* value and the position after it
ParseFailure == [ok |-> FALSE, v |-> JNull, next |-> 0]

ParseSuccess(v, next) == [ok |-> TRUE, v |-> v, next |-> next]

StartsWith(s, p, word) ==
    p + Len(word) - 1 <= Len(s) /\ SubSeq(s, p, p + Len(word) - 1) = word

\* a string literal at p (escape sequences are not modelled: a backslash fails)
ParseString(s, p) ==
    IF ~(p <= Len(s) /\ s[p] = "\"") THEN ParseFailure
    ELSE Let1(FirstFrom(s, p + 1, LAMBDA c : c = "\""), LAMBDA close :
            IF close > Len(s) THEN ParseFailure
            ELSE IF \E k \in (p + 1)..(close - 1) : s[k] \in {"\\", "\n", "\t", "\r"}
            THEN ParseFailure
            ELSE ParseSuccess(JString(SubSeq(s, p + 1, close - 1)), close + 1))

ParseNumber(s, p) ==
    Let1(FirstFrom(s, p, LAMBDA c : c \notin DigitChars \cup {"-", "+", ".", "e", "E"}),
         LAMBDA end :
            Let1(DecimalLiteral(SubSeq(s, p, end - 1), FALSE), LAMBDA n :
                IF IsDefined(n) THEN ParseSuccess(n[1], end) ELSE ParseFailure))

RECURSIVE ParseValue(_, _), ParseElements(_, _, _), ParseMembers(_, _, _)

\* the value that starts at the first non-whitespace position >= p0
ParseValue(s, p0) ==
    Let1(SkipWhitespace(s, p0), LAMBDA p :
        IF p > Len(s) THEN ParseFailure
        ELSE IF s[p] = "{" THEN
            Let1(SkipWhitespace(s, p + 1), LAMBDA q :
                IF q <= Len(s) /\ s[q] = "}" THEN ParseSuccess(JObject(<<>>), q + 1)
                ELSE ParseMembers(s, q, <<>>))
        ELSE IF s[p] = "[" THEN
            Let1(SkipWhitespace(s, p + 1), LAMBDA q :
                IF q <= Len(s) /\ s[q] = "]" THEN ParseSuccess(JArray(<<>>, <<>>), q + 1)
                ELSE ParseElements(s, q, <<>>))
        ELSE IF s[p] = "\"" THEN ParseString(s, p)
        ELSE IF StartsWith(s, p, <<"t", "r", "u", "e">>) THEN ParseSuccess(JBool(TRUE), p + 4)
        ELSE IF StartsWith(s, p, <<"f", "a", "l", "s", "e">>) THEN ParseSuccess(JBool(FALSE), p + 5)
        ELSE IF StartsWith(s, p, <<"n", "u", "l", "l">>) THEN ParseSuccess(JNull, p + 4)
        ELSE ParseNumber(s, p))

\* the elements of an array from p on, after the elements in items
ParseElements(s, p, items) ==
    Let1(ParseValue(s, p), LAMBDA e :
        IF ~e.ok THEN ParseFailure
        ELSE Let1(SkipWhitespace(s, e.next), LAMBDA q :
            IF q > Len(s) THEN ParseFailure
            ELSE IF s[q] = "]" THEN ParseSuccess(JArray(Append(items, e.v), <<>>), q + 1)
            ELSE IF s[q] = "," THEN ParseElements(s, q + 1, Append(items, e.v))
            ELSE ParseFailure))

\* obj[key] = value: an existing key keeps its place
SetEntry(entries, key, value) ==
    IF \E k \in 1..Len(entries) : entries[k][1] = key
    THEN [k \in 1..Len(entries) |-> IF entries[k][1] = key THEN <<key, value>> ELSE entries[k]]
    ELSE Append(entries, <<key, value>>)

\* the members of an object from p on, after the entries in entries
ParseMembers(s, p, entries) ==
    Let1(ParseString(s, SkipWhitespace(s, p)), LAMBDA key :
        IF ~key.ok THEN ParseFailure
        ELSE Let1(SkipWhitespace(s, key.next), LAMBDA colon :
            IF ~(colon <= Len(s) /\ s[colon] = ":") THEN ParseFailure
            ELSE Let1(ParseValue(s, colon + 1), LAMBDA m :
                IF ~m.ok THEN ParseFailure
                ELSE Let1(SkipWhitespace(s, m.next), LAMBDA q :
                    IF q > Len(s) THEN ParseFailure
                    ELSE IF s[q] = "}"
                    THEN ParseSuccess(JObject(SetEntry(entries, key.v.chars, m.v)), q + 1)
                    ELSE IF s[q] = ","
                    THEN ParseMembers(s, q + 1, SetEntry(entries, key.v.chars, m.v))
                    ELSE ParseFailure))))

\* JSON.parse(text): Defined(value), or Undefined when it throws a SyntaxError
JSONparse(text) ==
    Let1(ParseValue(text, 1), LAMBDA r :
        IF r.ok /\ SkipWhitespace(text, r.next) > Len(text) THEN Defined(r.v) ELSE Undefined)

\* what JSON.stringify writes for v, as the value a client reads back: named
\* properties of an array are not written, a non-finite number is written null
RECURSIVE Stringified(_)
Stringified(value) ==
    Let1(value, LAMBDA v :
        IF v.t = "number" THEN (IF v.kind = "finite" THEN v ELSE JNull)
        ELSE IF v.t = "array"
        THEN JArray([k \in 1..Len(v.items) |-> Stringified(v.items[k])], <<>>)
        ELSE IF v.t = "object"
        THEN JObject([k \in 1..Len(v.entries) |->
                        <<v.entries[k][1], Stringified(v.entries[k][2])>>])
        ELSE v)

----------------------------------------------------------------------------
(* JavaScript coercions and property access *)

\* text.trim()
Trim(text) ==
    IF \A k \in 1..Len(text) : IsWhitespace(text[k]) THEN <<>>
    ELSE SubSeq(text,
                CHOOSE a \in 1..Len(text) :
                    ~IsWhitespace(text[a]) /\ \A k \in 1..(a - 1) : IsWhitespace(text[k]),
                CHOOSE b \in 1..Len(text) :
                    ~IsWhitespace(text[b]) /\ \A k \in (b + 1)..Len(text) : IsWhitespace(text[k]))

\* Number(string): the trimmed string is empty (0), [+-]Infinity, or a decimal
\* literal (a sign, leading zeros and a bare leading or trailing '.' allowed);
\* anything else is NaN. Hexadecimal, octal and binary literals are not modelled.
StringToNumber(chars) ==
    LET t == Trim(chars)
        signed == t # <<>> /\ t[1] \in {"+", "-"}
        unsigned == IF signed THEN Tail(t) ELSE t
        sign == IF signed /\ t[1] = "-" THEN -1 ELSE 1
        padded == (IF unsigned # <<>> /\ unsigned[1] = "." THEN <<"0">> ELSE <<>>)
                  \o unsigned
                  \o (IF unsigned # <<>> /\ unsigned[Len(unsigned)] = "." THEN <<"0">> ELSE <<>>)
        literal == DecimalLiteral(padded, TRUE)
    IN  IF t = <<>> THEN JNumber(0)
        ELSE IF unsigned = <<"I","n","f","i","n","i","t","y">> THEN JInfinity(sign)
        ELSE IF unsigned = <<>> \/ unsigned = <<".">> \/ unsigned[1] \in {"+", "-"}
                \/ ~IsDefined(literal) THEN JNaN
        ELSE IF literal[1].kind = "finite" THEN JNumber(sign * literal[1].n)
        ELSE JInfinity(sign)

\* Number(v)
RECURSIVE ToNumber(_)
ToNumber(v) ==
    IF v.t = "number" THEN v
    ELSE IF v.t = "string" THEN StringToNumber(v.chars)
    ELSE IF v.t = "boolean" THEN (IF v.b THEN JInteger(1) ELSE JInteger(0))
    ELSE IF v.t = "null" THEN JInteger(0)
    ELSE IF v.t = "array" THEN
        \* Number(String(array)): "" for [], the element's string for one element
        IF Len(v.items) = 0 THEN JInteger(0)
        ELSE IF Len(v.items) > 1 THEN JNaN
        ELSE IF v.items[1].t \in {"number", "string", "null", "array"} THEN ToNumber(v.items[1])
        ELSE JNaN
    ELSE JNaN

\* !!v
Truthy(v) ==
    IF v.t = "null" THEN FALSE
    ELSE IF v.t = "boolean" THEN v.b
    ELSE IF v.t = "number" THEN ~(v.kind = "nan" \/ (v.kind = "finite" /\ v.n = 0))
    ELSE IF v.t = "string" THEN v.chars # <<>>
    ELSE TRUE

\* typeof v === "object" && v !== null, or an array
IsObjectLike(v) == v.t \in {"object", "array"}

PropertiesOf(v) == IF v.t = "object" THEN v.entries ELSE IF v.t = "array" THEN v.props ELSE <<>>

\* v[key] for the keys the handler reads, none of which a prototype defines:
\* Undefined unless v has the property itself
GetProperty(v, key) ==
    IF \E k \in 1..Len(PropertiesOf(v)) : PropertiesOf(v)[k][1] = key
    THEN Defined(PropertiesOf(v)[CHOOSE k \in 1..Len(PropertiesOf(v)) :
                                    PropertiesOf(v)[k][1] = key][2])
    ELSE Undefined

\* v[key] = value on an object or an array
SetProperty(v, key, value) ==
    IF v.t = "object" THEN JObject(SetEntry(v.entries, key, value))
    ELSE JArray(v.items, SetEntry(v.props, key, value))

\* !v[key]
LacksTruthy(v, key) == ~IsDefined(GetProperty(v, key)) \/ ~Truthy(GetProperty(v, key)[1])

\* Math.round of n thousandths: the nearest integer, halves upwards
MathRound(n) == (n + 500) \div 1000

K_keywords == <<"k","e","y","w","o","r","d","s">>

K_skillsFound == <<"s","k","i","l","l","s","F","o","u","n","d">>

K_topTokens == <<"t","o","p","T","o","k","e","n","s">>

K_atsScore == <<"a","t","s","S","c","o","r","e">>

K_error == <<"e","r","r","o","r">>

K_status == <<"s","t","a","t","u","s">>

K_details == <<"d","e","t","a","i","l","s">>

K_raw == <<"r","a","w">>

K_message == <<"m","e","s","s","a","g","e">>

K_parsedLength == <<"p","a","r","s","e","d","L","e","n","g","t","h">>

K_topSkills == <<"t","o","p","S","k","i","l","l","s">>

K_suggestions == <<"s","u","g","g","e","s","t","i","o","n","s">>

K_rewrittenBullets == <<"r","e","w","r","i","t","t","e","n","B","u","l","l","e","t","s">>

\* res.status(status).json(body): what the client receives
Response(status, body) == [status |-> status, body |-> Stringified(body)]

----------------------------------------------------------------------------
(* /api/analyze: the response for a text, once the provider call has returned *)

\* the atsScore, keywords, skillsFound and topTokens entries every keyword-only
\* response carries
HeuristicEntries(text, kw) ==
    << <<K_atsScore, JInteger(estimateAtsScoreFromText(Defined(text), Defined(kw)))>>,
       <<K_keywords, JStrings(kw.keywords)>>,
       <<K_skillsFound, JStrings(kw.skillsFound)>>,
       <<K_topTokens, JStrings(kw.topTokens)>> >>

\* the mock object of the USE_MOCK branch
MockResponse(text, kw) ==
    Response(200, JObject(
        << <<K_atsScore, JInteger(estimateAtsScoreFromText(Defined(text), Defined(kw)))>>,
           <<K_topSkills, JArray(<<JText("JavaScript"), JText("React"), JText("Node.js")>>, <<>>)>>,
           <<K_suggestions, JArray(<<JText("Add measurable metrics to achievements."),
                                     JText("Move skills to a prominent top section."),
                                     JText("Use action verbs in bullet points.")>>, <<>>)>>,
           <<K_rewrittenBullets, JArray(<<
               JText("Optimized page load time by 40% by introducing code-splitting and lazy-loading."),
               JText("Led a 3-person team to deliver a major feature two sprints early.")>>, <<>>)>>,
           <<K_keywords, JStrings(kw.keywords)>>,
           <<K_skillsFound, JStrings(kw.skillsFound)>>,
           <<K_topTokens, JStrings(kw.topTokens)>> >>))

\* the catch block of the handler
AnalysisFailed(message) ==
    Response(500, JObject(<< <<K_error, JText("Analysis failed")>>,
                             <<K_message, JText(message)>> >>))

\* a variant that gives up when the whole text is not JSON
extractJsonFromTextWhole(text) ==
    IF text = <<>> THEN JNull
    ELSE Let1(JSONparse(text), LAMBDA strict :
            IF IsDefined(strict) THEN strict[1] ELSE JNull)

\* extractJsonFromText(text): the parsed value, null when there is none
extractJsonFromText(text) ==
    LET firstCurly == FirstFrom(text, 1, LAMBDA c : c = "{")
        lastCurly == IF \E k \in 1..Len(text) : text[k] = "}"
                     THEN CHOOSE k \in 1..Len(text) :
                              text[k] = "}" /\ \A k2 \in (k + 1)..Len(text) : text[k2] # "}"
                     ELSE 0
        \* JSON.parse of the whole text, then of the slice when there is one
        attempts == <<text>> \o (IF firstCurly <= Len(text) /\ lastCurly # 0
                                    /\ lastCurly > firstCurly
                                 THEN <<SubSeq(text, firstCurly, lastCurly)>> ELSE <<>>)
    IN  IF text = <<>> THEN JNull
        ELSE Let1([k \in 1..Len(attempts) |-> JSONparse(attempts[k])], LAMBDA parses :
                IF IsDefined(parses[1]) THEN parses[1][1]
                ELSE IF Len(parses) = 2 /\ IsDefined(parses[2]) THEN parses[2][1]
                ELSE JNull)

\* the block that sets parsed.atsScore
NormalizeAtsScore(parsed, text, kw) ==
    LET given == GetProperty(parsed, K_atsScore)
        baseline == estimateAtsScoreFromText(Defined(text), Defined(kw))
    IN  IF ~IsDefined(given) THEN SetProperty(parsed, K_atsScore, JInteger(baseline))
        ELSE IF given[1].t = "null" \/ ToNumber(given[1]).kind = "nan"
        THEN SetProperty(parsed, K_atsScore, JInteger(baseline))
        ELSE Let1(ToNumber(given[1]), LAMBDA number :
             Let1(IF number.kind # "finite" THEN baseline * 1000 ELSE number.n, LAMBDA n :
             Let1(IF n < 0 THEN 0 ELSE n, LAMBDA n1 :
             Let1(IF n1 > 100 * 1000 THEN 100 * 1000 ELSE n1, LAMBDA n2 :
                SetProperty(parsed, K_atsScore, JInteger(MathRound(n2)))))))

\* `if (!parsed[key]) parsed[key] = value`
Backfill(parsed, key, value) ==
    IF LacksTruthy(parsed, key) THEN SetProperty(parsed, key, value) ELSE parsed

\* `try { parsed = JSON.parse(rawText) } catch { parsed = extractJsonFromText(rawText) }`
ParsedBody(rawText) ==
    Let1(JSONparse(rawText), LAMBDA strict :
        IF IsDefined(strict) THEN strict[1] ELSE extractJsonFromText(rawText))

\* the handler from `const rawText = openaiResult.text` to its end, for the body
\* rawText of a 2xx answer
NormalizeProviderText(rawText, text, kw) ==
    Let1(ParsedBody(rawText), LAMBDA parsed :
        IF ~Truthy(parsed)
        THEN Response(200, JObject(<< <<K_raw, JString(rawText)>> >> \o HeuristicEntries(text, kw)))
        ELSE IF ~IsObjectLike(parsed)
        \* `parsed.keywords = ...` on a primitive throws a TypeError in module (strict) code
        THEN AnalysisFailed("Cannot create property 'keywords' on a primitive")
        ELSE Let1(Backfill(parsed, K_keywords, JStrings(kw.keywords)), LAMBDA p1 :
             Let1(Backfill(p1, K_skillsFound, JStrings(kw.skillsFound)), LAMBDA p2 :
             Let1(Backfill(p2, K_topTokens, JStrings(kw.topTokens)), LAMBDA p3 :
                Response(200, NormalizeAtsScore(p3, text, kw))))))

\* a variant that answers every failure of the provider with the keyword-only analysis
AnswerDegradingEveryFailure(result, text, kw) ==
    IF ~result.ok
    THEN Response(200, JObject(
            << <<K_error, JText("AI provider rate-limited or unavailable. Returning keyword-only analysis.")>>,
               <<K_details, JString(result.text)>> >> \o HeuristicEntries(text, kw)))
    ELSE NormalizeProviderText(result.text, text, kw)

\* the handler's answer when callOpenAIWithRetries returned result
AnswerFor(result, text, kw) ==
    IF ~result.ok
    THEN IF result.status # 0 /\ result.status # 429
         THEN Response(502, JObject(<< <<K_error, JText("AI provider returned an error")>>,
                                       <<K_status, JInteger(result.status)>>,
                                       <<K_details, JString(result.text)>> >>))
         ELSE Response(200, JObject(
                << <<K_error, JText("AI provider rate-limited or unavailable. Returning keyword-only analysis.")>>,
                   <<K_details, JString(result.text)>> >> \o HeuristicEntries(text, kw)))
    ELSE NormalizeProviderText(result.text, text, kw)

----------------------------------------------------------------------------
(* Inputs *)

\* the words short texts are made of
Words ==
    {<<"A","W","S">>,
     <<"N","o","d","e",".","j","s",",">>,
     <<"m","a","c","h","i","n","e">>,
     <<"l","e","a","r","n","i","n","g">>,
     <<"t","h","e">>,
     <<"4","2">>,
     <<"b","u","i","l","t">>,
     <<"r","e","a","c","t","U+2013","n","a","t","i","v","e">>,
     <<"C","+","+">>}

MaxWords == 3

\* every text of at most MaxWords words, joined by single spaces
ShortTexts ==
    {Join(ws, <<" ">>) : ws \in UNION {[1..n -> Words] : n \in 0..MaxWords}}

\* the example sentence of the documentation
ExampleText ==
    <<"E","x","p","e","r","i","e","n","c","e","d"," ","e","n","g","i","n","e","e","r"," ","s",
      "k","i","l","l","e","d"," ","i","n"," ","R","e","a","c","t",","," ","N","o","d","e",".",
      "j","s",","," ","a","n","d"," ","A","W","S",","," ","b","u","i","l","t"," ","s","c","a",
      "l","a","b","l","e"," ","A","P","I","s"," ","f","o","r"," ","5"," ","y","e","a","r","s",
      ".">>

\* 20 skills and 12 other words: more than MaxKeywords distinct keywords
ManySkillsText ==
    <<"j","a","v","a","s","c","r","i","p","t"," ","t","y","p","e","s","c","r","i","p","t"," ",
      "r","e","a","c","t"," ","v","u","e"," ","a","n","g","u","l","a","r"," ","n","o","d","e",
      " ","e","x","p","r","e","s","s"," ","h","t","m","l"," ","c","s","s"," ","t","a","i","l",
      "w","i","n","d"," ","b","o","o","t","s","t","r","a","p"," ","r","e","d","u","x"," ","g",
      "r","a","p","h","q","l"," ","r","e","s","t"," ","a","p","i"," ","m","o","n","g","o","d",
      "b"," ","m","y","s","q","l"," ","p","o","s","t","g","r","e","s","q","l"," ","d","o","c",
      "k","e","r"," ","k","u","b","e","r","n","e","t","e","s"," ","a","l","p","h","a"," ","b",
      "r","a","v","o"," ","c","h","a","r","l","i","e"," ","d","e","l","t","a"," ","e","c","h",
      "o"," ","f","o","x","t","r","o","t"," ","g","o","l","f"," ","h","o","t","e","l"," ","i",
      "n","d","i","a"," ","j","u","l","i","e","t"," ","k","i","l","o"," ","l","i","m","a">>

\* the text made of n copies of w
Repeated(w, n) == [k \in 1..(n * Len(w)) |-> w[((k - 1) % Len(w)) + 1]]

\* texts of 150, 151, 300 and 301 words
LongTexts ==
    {Repeated(<<"d","a","t","a"," ">>, n) : n \in {150, 151, 300, 301}}

\* too short for /api/analyze (fewer than 10 characters)
TooShortText == <<" ","h","i"," ","t","h","e","r","e"," ">>

\* bodies of 2xx provider answers
\* a JSON object with a score
BodyScore85 ==
    <<"{","\"","a","t","s","S","c","o","r","e","\"",":","8","5",",","\"","t","o","p","S","k",
      "i","l","l","s","\"",":","[","\"","x","\"","]","}">>

\* the object inside prose
BodyInProse ==
    <<"H","e","r","e"," ","y","o","u"," ","g","o",":"," ","{","\"","a","t","s","S","c","o","r",
      "e","\"",":","8","5",",","\"","t","o","p","S","k","i","l","l","s","\"",":","[","\"","x",
      "\"","]","}"," ","t","h","a","n","k","s","!">>

\* scores out of range
BodyScore150 == <<"{","\"","a","t","s","S","c","o","r","e","\"",":","1","5","0","}">>

BodyScoreNegative == <<"{","\"","a","t","s","S","c","o","r","e","\"",":","-","5","}">>

\* fractional scores
BodyScoreHalf == <<"{","\"","a","t","s","S","c","o","r","e","\"",":","8","4",".","5","}">>

BodyScoreBelowHalf ==
    <<"{","\"","a","t","s","S","c","o","r","e","\"",":","8","4",".","4","9","9","}">>

\* scores that are not numbers
BodyScoreNA == <<"{","\"","a","t","s","S","c","o","r","e","\"",":","\"","N","/","A","\"","}">>

BodyScoreEmptyString == <<"{","\"","a","t","s","S","c","o","r","e","\"",":","\"","\"","}">>

BodyScoreNumericString == <<"{","\"","a","t","s","S","c","o","r","e","\"",":","\"","8","5","\"","}">>

BodyScoreTrue == <<"{","\"","a","t","s","S","c","o","r","e","\"",":","t","r","u","e","}">>

BodyScoreNull == <<"{","\"","a","t","s","S","c","o","r","e","\"",":","n","u","l","l","}">>

BodyScoreObject == <<"{","\"","a","t","s","S","c","o","r","e","\"",":","{","}","}">>

\* a score that overflows to Infinity
BodyScoreInfinite == <<"{","\"","a","t","s","S","c","o","r","e","\"",":","1","e","9","9","9","}">>

\* an object without a score, with its own keywords
BodyOwnKeywords ==
    <<"{","\"","k","e","y","w","o","r","d","s","\"",":","[","\"","g","o","\"","]",",","\"","t",
      "o","p","T","o","k","e","n","s","\"",":","\"","\"","}">>

BodyEmptyObject == <<"{","}">>

\* more rewritten bullets than asked for
BodySevenBullets ==
    <<"{","\"","a","t","s","S","c","o","r","e","\"",":","7","0",",","\"","r","e","w","r","i",
      "t","t","e","n","B","u","l","l","e","t","s","\"",":","[","\"","a","\"",",","\"","b","\"",
      ",","\"","c","\"",",","\"","d","\"",",","\"","e","\"",",","\"","f","\"",",","\"","g","\"",
      "]","}">>

\* JSON values that are not objects
BodyNumber == <<"5">>

BodyZero == <<"0">>

BodyString == <<"\"","o","k","\"">>

BodyTrue == <<"t","r","u","e">>

BodyNullLiteral == <<"n","u","l","l">>

BodyArray == <<"[","1",",","2","]">>

\* not JSON at all
BodyNotJson ==
    <<"S","o","r","r","y",","," ","I"," ","c","a","n","n","o","t"," ","h","e","l","p",".">>

BodyEmpty == <<>>

BodyBrokenObject == <<"{","\"","a","t","s","S","c","o","r","e","\"",":","8","5">>

OkBodies ==
    {BodyScore85, BodyInProse, BodyScore150, BodyScoreNegative,
     BodyScoreHalf, BodyScoreBelowHalf, BodyScoreNA, BodyScoreEmptyString,
     BodyScoreNumericString, BodyScoreTrue, BodyScoreNull, BodyScoreObject,
     BodyScoreInfinite, BodyOwnKeywords, BodyEmptyObject, BodySevenBullets,
     BodyNumber, BodyZero, BodyString, BodyTrue,
     BodyNullLiteral, BodyArray, BodyNotJson, BodyEmpty,
     BodyBrokenObject}

\* the body of a provider error answer
ErrorBody == <<"{","\"","e","r","r","o","r","\"",":","\"","x","\"","}">>

----------------------------------------------------------------------------
(* State *)

NumReqs == 3

Reqs == 1..NumReqs

\* the arguments of the one call of callOpenAIWithRetries
AnalyzeAttempts == 5

AnalyzeBaseDelay == 800

\* Math.random() * 300
JitterRange == 300

\* the jitters tried: the least and the greatest floor(Math.random() * 300)
Jitters == {0, JitterRange - 1}

\* the provLog entry of a fetch that threw
NetworkError == 0

\* a variant that takes a plain 200 for a failure
IsOkAbove200(status) == status > 200 /\ status < 300

\* resp.ok
IsOk(status) == status >= 200 /\ status < 300

\* a variant that retries after every failure
IsRetryableAlways(status) == TRUE

\* !(resp.status !== 429 && !(resp.status >= 500 && resp.status < 600))
IsRetryable(status) == ~(status # 429 /\ ~(status >= 500 /\ status < 600))

\* Math.pow(2, i)
RECURSIVE Pow2(_)
Pow2(i) == IF i = 0 THEN 1 ELSE 2 * Pow2(i - 1)

\* a variant that looks at OPENAI_MOCK alone
USE_MOCK_FlagOnly == env.OPENAI_MOCK = "true"

\* process.env.OPENAI_MOCK === "true" || !process.env.OPENAI_API_KEY
USE_MOCK == env.OPENAI_MOCK = "true" \/ env.OPENAI_API_KEY = ""

\* the environments tried ("" stands for an unset variable)
Envs ==
    {[OPENAI_MOCK |-> "", OPENAI_API_KEY |-> "sk-key"],
     [OPENAI_MOCK |-> "true", OPENAI_API_KEY |-> "sk-key"],
     [OPENAI_MOCK |-> "false", OPENAI_API_KEY |-> ""]}

NoCall == [attempts |-> 0, baseDelay |-> 0, i |-> 0, lastErrText |-> Undefined, delay |-> 0]

InitVocabulary ==
    /\ COMMON_STOPWORDS = StopwordsAtLoad
    /\ SKILLS_LIST = SkillsAtLoad

InitRequests ==
    /\ uploadsDir = {}
    /\ pc = [r \in Reqs |-> "idle"]
    /\ upload = [r \in Reqs |-> Undefined]
    /\ extractor = [r \in Reqs |-> <<>>]
    /\ reqText = [r \in Reqs |-> <<>>]
    /\ reqKw = [r \in Reqs |-> Undefined]
    /\ call = [r \in Reqs |-> NoCall]
    /\ fetches = [r \in Reqs |-> 0]
    /\ provLog = [r \in Reqs |-> <<>>]
    /\ waits = [r \in Reqs |-> 0]
    /\ outcome = [r \in Reqs |-> Undefined]
    /\ resp = [r \in Reqs |-> Undefined]

\* no resume stored, no application, no user, no auth request yet
InitElsewhere ==
    /\ applying = [r \in Reqs |-> Undefined]
    /\ resumesDir = {}
    /\ applications = <<>>
    /\ users = <<>>
    /\ authReq = Undefined
    /\ authResp = Undefined

Init ==
    /\ InitVocabulary
    /\ env \in Envs
    /\ InitRequests
    /\ InitElsewhere
    /\ arg = Undefined
    /\ ret = Undefined

----------------------------------------------------------------------------
(* callOpenAIWithRetries *)

\* a variant in which text and kw are module-level variables, written by every
\* request: the answer is made from those of the first request that has them
ClientReturnsSharedText(r, result, t, k) ==
    LET q == CHOOSE q \in Reqs :
                 /\ IsDefined(reqKw[q])
                 /\ \A q2 \in 1..(q - 1) : ~IsDefined(reqKw[q2])
    IN  /\ outcome' = [outcome EXCEPT ![r] = Defined(result)]
        /\ resp' = [resp EXCEPT ![r] = Defined(AnswerFor(result, reqText[q], reqKw[q][1]))]
        /\ pc' = [pc EXCEPT ![r] = "done"]

\* `return result` of callOpenAIWithRetries, and the rest of the handler, which
\* runs without another await; t and k are the handler's text and kw
ClientReturns(r, result, t, k) ==
    /\ outcome' = [outcome EXCEPT ![r] = Defined(result)]
    /\ resp' = [resp EXCEPT ![r] = Defined(AnswerFor(result, t, k))]
    /\ pc' = [pc EXCEPT ![r] = "done"]

\* a variant that reports the provider's failure as a 500
ExhaustedAsServerError(lastErrText) ==
    [ok |-> FALSE,
     text |-> IF IsDefined(lastErrText) /\ lastErrText[1] # <<>>
              THEN lastErrText[1] ELSE <<"exhausted retries">>,
     status |-> 500]

\* the value returned after the loop
Exhausted(lastErrText) ==
    [ok |-> FALSE,
     text |-> IF IsDefined(lastErrText) /\ lastErrText[1] # <<>>
              THEN lastErrText[1] ELSE <<"exhausted retries">>,
     status |-> 429]

\* a variant whose loop tests `i < attempts` after the body (do ... while)
StartCallDoWhile(r, attempts, baseDelay, t, k) ==
    /\ call' = [call EXCEPT ![r] = [attempts |-> attempts, baseDelay |-> baseDelay, i |-> 0,
                                    lastErrText |-> Undefined, delay |-> 0]]
    /\ fetches' = [fetches EXCEPT ![r] = @ + 1]
    /\ pc' = [pc EXCEPT ![r] = "attempting"]
    /\ UNCHANGED <<outcome, resp>>

\* the call of callOpenAIWithRetries up to its first await
StartCall(r, attempts, baseDelay, t, k) ==
    /\ call' = [call EXCEPT ![r] = [attempts |-> attempts, baseDelay |-> baseDelay, i |-> 0,
                                    lastErrText |-> Undefined, delay |-> 0]]
    /\ IF 0 < attempts
       THEN /\ fetches' = [fetches EXCEPT ![r] = @ + 1]
            /\ pc' = [pc EXCEPT ![r] = "attempting"]
            /\ UNCHANGED <<outcome, resp>>
       ELSE /\ ClientReturns(r, Exhausted(Undefined), t, k)
            /\ UNCHANGED fetches

\* a variant whose delay grows by baseDelay at each attempt
SleepLinear(r, errText, jitter) ==
    /\ call' = [call EXCEPT ![r].lastErrText = Defined(errText),
                            ![r].delay = call[r].baseDelay * (call[r].i + 1) + jitter]
    /\ waits' = [waits EXCEPT ![r] = @ + 1]
    /\ pc' = [pc EXCEPT ![r] = "backoff"]
    /\ UNCHANGED <<fetches, outcome, resp>>

\* the end of a failed iteration: the delay is computed and sleep(delay) awaited
Sleep(r, errText, jitter) ==
    /\ call' = [call EXCEPT ![r].lastErrText = Defined(errText),
                            ![r].delay = call[r].baseDelay * Pow2(call[r].i) + jitter]
    /\ waits' = [waits EXCEPT ![r] = @ + 1]
    /\ pc' = [pc EXCEPT ![r] = "backoff"]
    /\ UNCHANGED <<fetches, outcome, resp>>

\* fetch and resp.text() resolve: the provider answered status with body
ProviderResponds(r, status, body, jitter) ==
    /\ pc[r] = "attempting"
    /\ provLog' = [provLog EXCEPT ![r] = Append(@, status)]
    /\ IF IsOk(status) \/ ~IsRetryable(status)
       THEN \* `return { ok: resp.ok, text: txt, status: resp.status }`, for a
            \* failure after lastErrText is set
            /\ call' = [call EXCEPT ![r].lastErrText =
                            IF IsOk(status) THEN @
                            ELSE Defined(<<"status=", ToString(status), " body=">> \o body)]
            /\ ClientReturns(r, [ok |-> IsOk(status), text |-> body, status |-> status],
                             reqText[r], reqKw[r][1])
            /\ UNCHANGED <<fetches, waits>>
       ELSE Sleep(r, <<"status=", ToString(status), " body=">> \o body, jitter)
    /\ VocabularyFrozen
    /\ UNCHANGED <<env, uploadsDir, upload, extractor, reqText, reqKw, arg, ret, elsewhere>>

\* fetch (or resp.text()) rejects
FetchThrows(r, jitter) ==
    /\ pc[r] = "attempting"
    /\ provLog' = [provLog EXCEPT ![r] = Append(@, NetworkError)]
    /\ Sleep(r, <<"request to https://api.openai.com/v1/chat/completions failed">>, jitter)
    /\ VocabularyFrozen
    /\ UNCHANGED <<env, uploadsDir, upload, extractor, reqText, reqKw, arg, ret, elsewhere>>

\* a variant whose loop test is `i <= attempts`
BackoffElapsedOffByOne(r) ==
    /\ pc[r] = "backoff"
    /\ call' = [call EXCEPT ![r].i = @ + 1, ![r].delay = 0]
    /\ IF call[r].i + 1 <= call[r].attempts
       THEN /\ fetches' = [fetches EXCEPT ![r] = @ + 1]
            /\ pc' = [pc EXCEPT ![r] = "attempting"]
            /\ UNCHANGED <<outcome, resp>>
       ELSE /\ ClientReturns(r, Exhausted(call[r].lastErrText), reqText[r], reqKw[r][1])
            /\ UNCHANGED fetches
    /\ VocabularyFrozen
    /\ UNCHANGED <<env, uploadsDir, upload, extractor, reqText, reqKw, provLog, waits, arg, ret,
                   elsewhere>>

\* sleep(delay) resolves: the iteration's `delay` goes out of scope, i++ and the
\* loop test
BackoffElapsed(r) ==
    /\ pc[r] = "backoff"
    /\ call' = [call EXCEPT ![r].i = @ + 1, ![r].delay = 0]
    /\ IF call[r].i + 1 < call[r].attempts
       THEN /\ fetches' = [fetches EXCEPT ![r] = @ + 1]
            /\ pc' = [pc EXCEPT ![r] = "attempting"]
            /\ UNCHANGED <<outcome, resp>>
       ELSE /\ ClientReturns(r, Exhausted(call[r].lastErrText), reqText[r], reqKw[r][1])
            /\ UNCHANGED fetches
    /\ VocabularyFrozen
    /\ UNCHANGED <<env, uploadsDir, upload, extractor, reqText, reqKw, provLog, waits, arg, ret,
                   elsewhere>>

----------------------------------------------------------------------------
(* POST /api/analyze *)

\* s.endsWith(suffix)
EndsWith(s, suffix) ==
    Len(s) >= Len(suffix) /\ SubSeq(s, Len(s) - Len(suffix) + 1, Len(s)) = suffix

\* the first test of the extractor dispatch
IsPdf(file) ==
    file.mimetype = "application/pdf"
    \/ EndsWith(LowerCased(file.originalname), <<".", "p", "d", "f">>)

\* the second test of the extractor dispatch
IsDocx(file) == EndsWith(LowerCased(file.originalname), <<".", "d", "o", "c", "x">>)

\* a dispatch that looks at the file's name only
ExtractorForName(file) ==
    IF EndsWith(LowerCased(file.originalname), <<".", "p", "d", "f">>) THEN "pdf"
    ELSE IF IsDocx(file) THEN "docx"
    ELSE "utf8"

\* the branch of the extractor dispatch taken for file: safeParsePdfBuffer,
\* mammoth.extractRawText or readFileUtf8
ExtractorFor(file) ==
    IF IsPdf(file) THEN "pdf"
    ELSE IF IsDocx(file) THEN "docx"
    ELSE "utf8"

\* the extractor chosen for req.file is called
Invoke(r, file) ==
    extractor' = [extractor EXCEPT ![r] =
                    Append(@, [parser |-> ExtractorFor(file),
                               originalname |-> file.originalname,
                               mimetype |-> file.mimetype])]

Respond(r, response) ==
    /\ resp' = [resp EXCEPT ![r] = Defined(response)]
    /\ pc' = [pc EXCEPT ![r] = "done"]

\* the handler from the length test on, for the text t
AnalyzeText(r, t) ==
    /\ reqText' = [reqText EXCEPT ![r] = t]
    /\ IF t = <<>> \/ Len(Trim(t)) < 10
       THEN /\ Respond(r, Response(400, JObject(
                    << <<K_error, JText("Parsed text is empty or too short")>>,
                       <<K_parsedLength, JInteger(Len(t))>> >>)))
            /\ UNCHANGED <<reqKw, call, fetches, outcome>>
       ELSE \E k \in {extractKeywords(t)} :
            /\ reqKw' = [reqKw EXCEPT ![r] = Defined(k)]
            /\ IF USE_MOCK
               THEN /\ Respond(r, MockResponse(t, k))
                    /\ UNCHANGED <<call, fetches, outcome>>
               ELSE StartCall(r, AnalyzeAttempts, AnalyzeBaseDelay, t, k)

\* The request arrives and the handler runs to its first await. input.file is
\* req.file (multer has stored it in UPLOADS_DIR), input.text is req.body.text.
\* file.content is what the extractor chosen for the file yields: Defined(text),
\* or Undefined when the parser throws.
Analyze(r, input) ==
    /\ pc[r] = "idle"
    /\ IF IsDefined(input.file) THEN Invoke(r, input.file[1]) ELSE UNCHANGED extractor
    /\ IF IsDefined(input.file) /\ ExtractorFor(input.file[1]) # "utf8"
       THEN \* await safeParsePdfBuffer(buffer) / await mammoth.extractRawText(...)
            /\ uploadsDir' = uploadsDir \cup {r}
            /\ upload' = [upload EXCEPT ![r] = input.file]
            /\ pc' = [pc EXCEPT ![r] = "extracting"]
            /\ UNCHANGED <<reqText, reqKw, call, fetches, outcome, resp>>
       ELSE IF IsDefined(input.file) /\ ~IsDefined(input.file[1].content)
       THEN \* readFileUtf8 throws: the catch block, which unlinks the file
            /\ Respond(r, AnalysisFailed("ENOENT: no such file or directory"))
            /\ UNCHANGED <<uploadsDir, upload, reqText, reqKw, call, fetches, outcome>>
       ELSE IF IsDefined(input.file) \/ (IsDefined(input.text) /\ input.text[1] # <<>>)
       THEN \* readFileUtf8(filePath) and safeUnlink(filePath), or String(req.body.text)
            /\ UNCHANGED <<uploadsDir, upload>>
            /\ AnalyzeText(r, IF IsDefined(input.file) THEN input.file[1].content[1]
                              ELSE input.text[1])
       ELSE /\ Respond(r, Response(400, JObject(
                    << <<K_error, JText("No file or text provided")>> >>)))
            /\ UNCHANGED <<uploadsDir, upload, reqText, reqKw, call, fetches, outcome>>
    /\ VocabularyFrozen
    /\ UNCHANGED <<env, provLog, waits, arg, ret, elsewhere>>

\* the PDF or DOCX parser settles; safeUnlink(filePath); the handler goes on
ExtractionDone(r) ==
    /\ pc[r] = "extracting"
    /\ UNCHANGED extractor
    /\ uploadsDir' = uploadsDir \ {r}
    /\ upload' = [upload EXCEPT ![r] = Undefined]
    /\ IF ExtractorFor(upload[r][1]) = "pdf" \/ IsDefined(upload[r][1].content)
       THEN \* safeParsePdfBuffer returns "" when pdf-parse throws
            AnalyzeText(r, IF IsDefined(upload[r][1].content)
                           THEN upload[r][1].content[1] ELSE <<>>)
       ELSE \* mammoth throws: the catch block
            /\ Respond(r, AnalysisFailed("Could not find file in options"))
            /\ UNCHANGED <<reqText, reqKw, call, fetches, outcome>>
    /\ VocabularyFrozen
    /\ UNCHANGED <<env, provLog, waits, arg, ret, elsewhere>>

\* the uploads tried
Files ==
    {[originalname |-> <<"c","v",".","p","d","f">>, mimetype |-> "application/pdf",
      content |-> Defined(ExampleText)],
     [originalname |-> <<"s","c","a","n",".","P","D","F">>, mimetype |-> "application/octet-stream",
      content |-> Undefined],
     [originalname |-> <<"c","v",".","d","o","c","x">>, mimetype |-> "application/pdf",
      content |-> Defined(<<>>)],
     [originalname |-> <<"c","v",".","D","o","c","x">>, mimetype |-> "application/msword",
      content |-> Defined(ExampleText)],
     [originalname |-> <<"b","a","d",".","d","o","c","x">>, mimetype |-> "application/msword",
      content |-> Undefined],
     [originalname |-> <<"c","v",".","t","x","t">>, mimetype |-> "text/plain",
      content |-> Defined(ManySkillsText)]}

\* the requests tried
AnalyzeInputs ==
    {[file |-> Defined(f), text |-> Undefined] : f \in Files}
    \cup {[file |-> Undefined, text |-> t] :
            t \in {Undefined, Defined(<<>>), Defined(TooShortText),
                   Defined(ExampleText), Defined(ManySkillsText)}}

\* the statuses the provider answers with
Statuses == {200, 401, 429, 499, 500, 599, 600}

\* the bodies the provider sends with a status
BodiesFor(status) == IF IsOk(status) THEN OkBodies ELSE {ErrorBody}

\* One /api/analyze request, with every provider behaviour
Next ==
    \/ \E input \in AnalyzeInputs : Analyze(1, input)
    \/ ExtractionDone(1)
    \/ \E status \in Statuses : \E body \in BodiesFor(status) : \E jitter \in Jitters :
            ProviderResponds(1, status, body, jitter)
    \/ \E jitter \in Jitters : FetchThrows(1, jitter)
    \/ BackoffElapsed(1)

Spec == Init /\ [][Next]_vars

----------------------------------------------------------------------------
(* Direct calls of the pure helpers *)

\* the texts extractKeywords is called with
KeywordTexts == ShortTexts \cup {ExampleText, ManySkillsText} \cup LongTexts

\* the `text` arguments of estimateAtsScoreFromText
EstimatorTexts ==
    {Undefined} \cup {Defined(t) : t \in {<<>>, ExampleText, ManySkillsText} \cup LongTexts}

\* a keyword profile with n keywords
ProfileOf(n) ==
    [keywords |-> [k \in 1..n |-> Repeated(<<"x">>, k + 2)],
     skillsFound |-> <<>>,
     topTokens |-> [k \in 1..n |-> Repeated(<<"x">>, k + 2)]]

\* the `kw` arguments of estimateAtsScoreFromText: undefined, profiles on both
\* sides of each keyword threshold, and the profiles of two texts
EstimatorProfiles ==
    {Undefined}
    \cup {Defined(ProfileOf(n)) : n \in {0, 5, 6, 10, 11, 15, 16, MaxKeywords}}
    \cup {Defined(extractKeywords(t)) : t \in {ExampleText, ManySkillsText}}

\* the calls made: the helper's name and its arguments
Calls ==
    {[fn |-> "extractKeywords", text |-> text] : text \in KeywordTexts}
    \cup {[fn |-> "estimateAtsScoreFromText", text |-> text, kw |-> kw] :
            text \in EstimatorTexts, kw \in EstimatorProfiles}

\* a helper is about to be called, on a server that handles no request
InitFn ==
    /\ InitVocabulary
    /\ env \in Envs
    /\ InitRequests
    /\ InitElsewhere
    /\ arg \in {Defined(c) : c \in Calls}
    /\ ret = Undefined

CallExtractKeywords ==
    /\ arg[1].fn = "extractKeywords"
    /\ ret = Undefined
    /\ ret' = Defined(extractKeywords(arg[1].text))
    /\ VocabularyFrozen
    /\ UNCHANGED <<env, requestVars, arg, elsewhere>>

CallEstimate ==
    /\ arg[1].fn = "estimateAtsScoreFromText"
    /\ ret = Undefined
    /\ ret' = Defined(estimateAtsScoreFromText(arg[1].text, arg[1].kw))
    /\ VocabularyFrozen
    /\ UNCHANGED <<env, requestVars, arg, elsewhere>>

NextFn ==
    \/ CallExtractKeywords
    \/ CallEstimate

\* The pure helpers, each called once with an input of Calls
SpecFn == InitFn /\ [][NextFn]_vars

----------------------------------------------------------------------------
(* Concurrent requests *)

InitDet == Init /\ USE_MOCK

\* the requests made concurrently: a text uploaded as a PDF, the same text and
\* another one pasted, and a text that is too short
ConcurrentInputs ==
    {input \in AnalyzeInputs :
        \/ input.text \in {Defined(ExampleText), Defined(ManySkillsText), Defined(TooShortText)}
        \/ /\ IsDefined(input.file)
           /\ input.file[1].mimetype = "application/pdf"
           /\ input.file[1].content = Defined(ExampleText)}

NextDet ==
    \/ \E r \in Reqs : \E input \in ConcurrentInputs : Analyze(r, input)
    \/ \E r \in Reqs : ExtractionDone(r)

\* NumReqs /api/analyze requests, interleaved at their awaits, with OPENAI_MOCK
\* in force: each answer carries the keyword profile and the heuristic score
SpecDet == InitDet /\ [][NextDet]_vars

----------------------------------------------------------------------------
(* POST /api/parse *)

K_text == <<"t","e","x","t">>

\* the answer of /api/parse is sent
ParseRespond(r, response) ==
    /\ resp' = [resp EXCEPT ![r] = Defined(response)]
    /\ pc' = [pc EXCEPT ![r] = "parsed"]

\* the catch block of /api/parse
FailedToParse(message) ==
    Response(500, JObject(<< <<K_error, JText("Failed to parse file")>>,
                             <<K_message, JText(message)>> >>))

\* the answer for a file without extractable text
NoExtractableText ==
    Response(200, JObject(
        << <<K_text, JString(<<>>)>>,
           <<K_keywords, JArray(<<>>, <<>>)>>,
           <<K_skillsFound, JArray(<<>>, <<>>)>>,
           <<K_topTokens, JArray(<<>>, <<>>)>>,
           <<K_message, JText("No extractable text found. The file might be scanned or corrupted.")>> >>))

\* a variant whose test is `!text` alone
ParseTextUntrimmed(r, t) ==
    /\ reqText' = [reqText EXCEPT ![r] = t]
    /\ IF t = <<>>
       THEN /\ ParseRespond(r, NoExtractableText)
            /\ UNCHANGED reqKw
       ELSE \E k \in {extractKeywords(t)} :
            /\ reqKw' = [reqKw EXCEPT ![r] = Defined(k)]
            /\ ParseRespond(r, Response(200, JObject(
                    << <<K_text, JString(t)>>,
                       <<K_keywords, JStrings(k.keywords)>>,
                       <<K_skillsFound, JStrings(k.skillsFound)>>,
                       <<K_topTokens, JStrings(k.topTokens)>> >>)))

\* /api/parse from safeUnlink(filePath) on, for the extracted text t
ParseText(r, t) ==
    /\ reqText' = [reqText EXCEPT ![r] = t]
    /\ IF t = <<>> \/ Len(Trim(t)) = 0
       THEN /\ ParseRespond(r, NoExtractableText)
            /\ UNCHANGED reqKw
       ELSE \E k \in {extractKeywords(t)} :
            /\ reqKw' = [reqKw EXCEPT ![r] = Defined(k)]
            /\ ParseRespond(r, Response(200, JObject(
                    << <<K_text, JString(t)>>,
                       <<K_keywords, JStrings(k.keywords)>>,
                       <<K_skillsFound, JStrings(k.skillsFound)>>,
                       <<K_topTokens, JStrings(k.topTokens)>> >>)))

\* A /api/parse request arrives and its handler runs to its first await, or to
\* its end for a file read with readFileUtf8. input.file is req.file;
\* file.content is what the extractor chosen for the file yields: Defined(text),
\* or Undefined when it throws.
Parse(r, input) ==
    /\ pc[r] = "idle"
    /\ IF IsDefined(input.file) THEN Invoke(r, input.file[1]) ELSE UNCHANGED extractor
    /\ IF ~IsDefined(input.file)
       THEN /\ ParseRespond(r, Response(400, JObject(
                    << <<K_error, JText("No file uploaded.")>> >>)))
            /\ UNCHANGED <<uploadsDir, upload, reqText, reqKw>>
       ELSE IF ExtractorFor(input.file[1]) # "utf8"
       THEN \* await safeParsePdfBuffer(buffer) / await mammoth.extractRawText(...)
            /\ uploadsDir' = uploadsDir \cup {r}
            /\ upload' = [upload EXCEPT ![r] = input.file]
            /\ pc' = [pc EXCEPT ![r] = "parsing"]
            /\ UNCHANGED <<reqText, reqKw, resp>>
       ELSE IF IsDefined(input.file[1].content)
       THEN \* readFileUtf8(filePath); safeUnlink(filePath)
            /\ UNCHANGED <<uploadsDir, upload>>
            /\ ParseText(r, input.file[1].content[1])
       ELSE \* readFileUtf8 throws: the catch block, which unlinks the file
            /\ ParseRespond(r, FailedToParse("ENOENT: no such file or directory"))
            /\ UNCHANGED <<uploadsDir, upload, reqText, reqKw>>
    /\ VocabularyFrozen
    /\ UNCHANGED <<env, call, fetches, provLog, waits, outcome, arg, ret, elsewhere>>

\* the PDF or DOCX parser of a /api/parse request settles
ParseExtractionDone(r) ==
    /\ pc[r] = "parsing"
    /\ UNCHANGED extractor
    /\ uploadsDir' = uploadsDir \ {r}
    /\ upload' = [upload EXCEPT ![r] = Undefined]
    /\ IF ExtractorFor(upload[r][1]) = "pdf" \/ IsDefined(upload[r][1].content)
       THEN \* safeParsePdfBuffer returns "" when pdf-parse throws
            ParseText(r, IF IsDefined(upload[r][1].content)
                         THEN upload[r][1].content[1] ELSE <<>>)
       ELSE \* mammoth throws: the catch block
            /\ ParseRespond(r, FailedToParse("Could not find file in options"))
            /\ UNCHANGED <<reqText, reqKw>>
    /\ VocabularyFrozen
    /\ UNCHANGED <<env, call, fetches, provLog, waits, outcome, arg, ret, elsewhere>>

\* a text of spaces, tabs and line breaks only
WhitespaceText == <<" ", "\t", "\n", " ">>

\* the uploads tried with /api/parse: those of /api/analyze, and plain-text and
\* PDF files that are unreadable, empty or blank
ParseFiles ==
    Files \cup
    {[originalname |-> <<"g","o","n","e",".","t","x","t">>, mimetype |-> "text/plain",
      content |-> Undefined],
     [originalname |-> <<"e","m","p","t","y",".","t","x","t">>, mimetype |-> "text/plain",
      content |-> Defined(<<>>)],
     [originalname |-> <<"b","l","a","n","k",".","m","d">>, mimetype |-> "text/markdown",
      content |-> Defined(WhitespaceText)],
     [originalname |-> <<"b","l","a","n","k",".","p","d","f">>, mimetype |-> "application/pdf",
      content |-> Defined(WhitespaceText)],
     [originalname |-> <<"s","h","o","r","t",".","t","x","t">>, mimetype |-> "text/plain",
      content |-> Defined(TooShortText)]}

\* the /api/parse requests tried
ParseInputs ==
    {[file |-> Undefined]} \cup {[file |-> Defined(f)] : f \in ParseFiles}

NextParse ==
    \/ \E r \in Reqs : \E input \in ParseInputs : Parse(r, input)
    \/ \E r \in Reqs : ParseExtractionDone(r)

\* NumReqs /api/parse requests, interleaved at their awaits
SpecParse == Init /\ [][NextParse]_vars

----------------------------------------------------------------------------
(* POST /api/jobs/:jobId/apply *)

K_resumeUrl == <<"r","e","s","u","m","e","U","r","l">>

\* the _id of the one job in the collection
PostedJobId == "64b7f0a2c3d4e5f6a7b8c9d0"

\* the job ids tried: the posted job's, a well-formed one of no job, and a
\* string that is no ObjectId (Job.findById rejects with a CastError)
JobIds == {PostedJobId, "64b7f0a2c3d4e5f6a7b8c9d1", "not-an-id"}

IsObjectId(jobId) == jobId # "not-an-id"

\* the branch of the file handling taken for req.file
ApplyKind(file) ==
    IF IsPdf(file) THEN "pdf"
    ELSE IF IsDocx(file) THEN "docx"
    ELSE IF EndsWith(LowerCased(file.originalname), <<".", "t", "x", "t">>) THEN "txt"
    ELSE "other"

ApplyRespond(r, response) ==
    /\ resp' = [resp EXCEPT ![r] = Defined(response)]
    /\ pc' = [pc EXCEPT ![r] = "applied"]

\* the catch block of the handler, after `if (tmpFilePath) safeUnlink(tmpFilePath)`
FailedToApply ==
    Response(500, JObject(<< <<K_error, JText("Failed to apply for job.")>> >>))

\* The request arrives (multer has stored req.file in UPLOADS_DIR) and the
\* handler runs to `await Job.findById(jobId)`
Apply(r, input) ==
    /\ pc[r] = "idle"
    /\ applying' = [applying EXCEPT ![r] = Defined(input)]
    /\ uploadsDir' = IF IsDefined(input.file) THEN uploadsDir \cup {r} ELSE uploadsDir
    /\ IF input.candidateName = "" \/ input.candidateEmail = ""
       THEN \* `return res.status(400)`: req.file is not looked at
            ApplyRespond(r, Response(400, JObject(
                << <<K_error, JText("candidateName and candidateEmail are required.")>> >>)))
       ELSE /\ pc' = [pc EXCEPT ![r] = "finding"]
            /\ UNCHANGED resp
    /\ VocabularyFrozen
    /\ UNCHANGED <<env, upload, analysisVars, arg, ret, resumesDir, applications, authVars>>

\* Job.findById settles, and the handler runs to its next await
JobLookedUp(r) ==
    /\ pc[r] = "finding"
    /\ LET input == applying[r][1]
       IN  IF ~IsObjectId(input.jobId)
           THEN \* findById rejects: the catch block, where tmpFilePath is still undefined
                /\ ApplyRespond(r, FailedToApply)
                /\ UNCHANGED <<uploadsDir, resumesDir>>
           ELSE IF input.jobId # PostedJobId
           THEN \* `if (req.file && req.file.path) safeUnlink(req.file.path)`
                /\ uploadsDir' = uploadsDir \ {r}
                /\ ApplyRespond(r, Response(404, JObject(
                        << <<K_error, JText("Job not found.")>> >>)))
                /\ UNCHANGED resumesDir
           ELSE IF IsDefined(input.file) /\ ApplyKind(input.file[1]) = "pdf"
           THEN \* fs.renameSync(tmpFilePath, target); job.applications.push; await job.save()
                /\ uploadsDir' = uploadsDir \ {r}
                /\ resumesDir' = resumesDir \cup {r}
                /\ pc' = [pc EXCEPT ![r] = "saving"]
                /\ UNCHANGED resp
           ELSE IF IsDefined(input.file) \/ input.resumeText # ""
           THEN \* await mammoth.extractRawText / safeParsePdfBuffer / generatePdfFromText
                /\ pc' = [pc EXCEPT ![r] = "converting"]
                /\ UNCHANGED <<uploadsDir, resumesDir, resp>>
           ELSE \* no resume: job.applications.push; await job.save()
                /\ pc' = [pc EXCEPT ![r] = "saving"]
                /\ UNCHANGED <<uploadsDir, resumesDir, resp>>
    /\ VocabularyFrozen
    /\ UNCHANGED <<env, upload, analysisVars, arg, ret, applying, applications, authVars>>

\* The awaits of the file handling settle. generated tells whether
\* generatePdfFromText resolved; it is not called for a file that
\* safeParsePdfBuffer reads more than 20 characters from.
Converted(r, generated) ==
    /\ pc[r] = "converting"
    /\ LET input == applying[r][1]
           disguisedPdf == /\ IsDefined(input.file)
                           /\ ApplyKind(input.file[1]) = "other"
                           /\ IsDefined(input.file[1].content)
                           /\ Len(Trim(input.file[1].content[1])) > 20
       IN  IF disguisedPdf
           THEN \* fs.renameSync(tmpFilePath, target)
                /\ generated
                /\ uploadsDir' = uploadsDir \ {r}
                /\ resumesDir' = resumesDir \cup {r}
                /\ pc' = [pc EXCEPT ![r] = "saving"]
                /\ UNCHANGED resp
           ELSE IF generated
           THEN \* the PDF is written to RESUMES_DIR; safeUnlink(tmpFilePath)
                /\ uploadsDir' = uploadsDir \ {r}
                /\ resumesDir' = resumesDir \cup {r}
                /\ pc' = [pc EXCEPT ![r] = "saving"]
                /\ UNCHANGED resp
           ELSE \* generatePdfFromText rejects: the catch block unlinks tmpFilePath
                /\ uploadsDir' = uploadsDir \ {r}
                /\ ApplyRespond(r, FailedToApply)
                /\ UNCHANGED resumesDir
    /\ VocabularyFrozen
    /\ UNCHANGED <<env, upload, analysisVars, arg, ret, applying, applications, authVars>>

\* job.save() settles
Saved(r, saved) ==
    /\ pc[r] = "saving"
    /\ IF saved
       THEN /\ applications' = Append(applications,
                    [candidateName |-> applying[r][1].candidateName,
                     candidateEmail |-> applying[r][1].candidateEmail,
                     resume |-> IF r \in resumesDir THEN Defined(r) ELSE Undefined])
            /\ ApplyRespond(r, Response(200, JObject(
                    << <<K_message, JText("Application submitted successfully.")>> >>
                    \o (IF r \in resumesDir THEN << <<K_resumeUrl, JText("/resumes/")>> >>
                        ELSE <<>>))))
       ELSE \* the catch block: safeUnlink(tmpFilePath) finds no file
            /\ ApplyRespond(r, FailedToApply)
            /\ UNCHANGED applications
    /\ VocabularyFrozen
    /\ UNCHANGED <<env, uploadsDir, upload, analysisVars, arg, ret, applying, resumesDir,
                   authVars>>

\* the files sent with an application
ApplyFiles ==
    {[originalname |-> <<"c","v",".","p","d","f">>, mimetype |-> "application/pdf",
      content |-> Defined(ExampleText)],
     [originalname |-> <<"c","v",".","d","o","c","x">>, mimetype |-> "application/msword",
      content |-> Defined(ExampleText)],
     [originalname |-> <<"c","v",".","t","x","t">>, mimetype |-> "text/plain",
      content |-> Defined(ManySkillsText)],
     [originalname |-> <<"c","v",".","b","i","n">>, mimetype |-> "application/octet-stream",
      content |-> Defined(ExampleText)],
     [originalname |-> <<"p","h","o","t","o",".","p","n","g">>, mimetype |-> "image/png",
      content |-> Undefined]}

\* the applications made: with a file, with a pasted text, with neither
ApplyInputs ==
    {[file |-> file, resumeText |-> resumeText, candidateName |-> candidateName,
      candidateEmail |-> "ada@example.com", jobId |-> jobId] :
        file \in {Undefined} \cup {Defined(f) : f \in ApplyFiles},
        resumeText \in {"", "Experienced engineer"},
        candidateName \in {"", "Ada"},
        jobId \in JobIds}

----------------------------------------------------------------------------
(* POST /api/auth/register and POST /api/auth/login *)

\* the most users registered in a behaviour
MaxUsers == 3

\* A value of req.body: a string, or an array holding one string (what
\* express.json() makes of `["ada@example.com"]`), or undefined
StringValue(value) == [type |-> "string", value |-> value]
ArrayValue(value) == [type |-> "array", value |-> value]
Missing == [type |-> "undefined", value |-> ""]

\* `!value` is false
IsTruthy(v) == v.type = "array" \/ (v.type = "string" /\ v.value # "")

\* stored === incoming: strings are equal by value; the array of a request is
\* a new object, identical to none that was stored before
StrictEquals(stored, incoming) == incoming.type = "string" /\ stored = incoming

\* users.find((u) => u.email === email), as the index found, 0 for undefined
FindByEmail(list, email) ==
    IF \E k \in 1 .. Len(list) : StrictEquals(list[k].email, email)
    THEN CHOOSE k \in 1 .. Len(list) :
            /\ StrictEquals(list[k].email, email)
            /\ \A j \in 1 .. (k - 1) : ~StrictEquals(list[j].email, email)
    ELSE 0

\* the `user` object of a 200 response
PublicUser(user) ==
    [id |-> user.id, fullName |-> user.fullName, email |-> user.email,
     role |-> user.role, company |-> user.company]

AuthResponse(status, user) == Defined([status |-> status, user |-> user])

Emails == {Missing, StringValue("ada@example.com"), StringValue("bob@example.com"), ArrayValue("ada@example.com")}

Roles == {"", "candidate", "recruiter"}

RegisterInputs ==
    [fullName : {"", "Ada"}, email : Emails, password : {"", "pw"}, role : Roles,
     company : {"Acme"}]

LoginInputs ==
    [email : Emails, password : {"", "pw", "wrong"}, role : Roles]

Register(input) ==
    /\ Len(users) < MaxUsers
    /\ authReq' = Defined([route |-> "register", body |-> input])
    /\ IF input.fullName = "" \/ ~IsTruthy(input.email) \/ input.password = "" \/ input.role = ""
       THEN /\ authResp' = AuthResponse(400, Undefined)
            /\ UNCHANGED users
       ELSE IF FindByEmail(users, input.email) # 0
       THEN /\ authResp' = AuthResponse(409, Undefined)
            /\ UNCHANGED users
       ELSE LET user == [id |-> Len(users) + 1,
                         fullName |-> input.fullName,
                         email |-> input.email,
                         password |-> input.password,
                         role |-> input.role,
                         company |-> IF input.role = "recruiter"
                                     THEN Defined(input.company) ELSE Undefined]
            IN  /\ users' = Append(users, user)
                /\ authResp' = AuthResponse(200, Defined(PublicUser(user)))
    /\ VocabularyFrozen
    /\ UNCHANGED <<env, uploadsDir, pc, upload, analysisVars, resp, arg, ret,
                   applying, resumesDir, applications>>

Login(input) ==
    /\ authReq' = Defined([route |-> "login", body |-> input])
    /\ LET found == FindByEmail(users, input.email)
       IN  authResp' =
               IF ~IsTruthy(input.email) \/ input.password = "" THEN AuthResponse(400, Undefined)
               ELSE IF found = 0 THEN AuthResponse(401, Undefined)
               ELSE IF users[found].password # input.password THEN AuthResponse(401, Undefined)
               ELSE IF input.role # "" /\ users[found].role # input.role
                    THEN AuthResponse(403, Undefined)
               ELSE AuthResponse(200, Defined(PublicUser(users[found])))
    /\ VocabularyFrozen
    /\ UNCHANGED <<env, uploadsDir, pc, upload, analysisVars, resp, arg, ret,
                   applying, resumesDir, applications, users>>

NextAuth ==
    \/ \E input \in RegisterInputs : Register(input)
    \/ \E input \in LoginInputs : Login(input)

SpecAuth == InitDet /\ [][NextAuth]_vars

----------------------------------------------------------------------------
(* Uploads to the three routes that take a file *)

\* request 1 is a /api/parse request, request 2 a /api/analyze request in
\* mock mode and request NumReqs an application
NextUploads ==
    \/ \E f \in Files : Parse(1, [file |-> Defined(f)])
    \/ ParseExtractionDone(1)
    \/ \E f \in Files : Analyze(2, [file |-> Defined(f), text |-> Undefined])
    \/ ExtractionDone(2)
    \/ \E input \in ApplyInputs : Apply(NumReqs, input)
    \/ JobLookedUp(NumReqs)
    \/ \E generated \in BOOLEAN : Converted(NumReqs, generated)
    \/ \E saved \in BOOLEAN : Saved(NumReqs, saved)

SpecUploads == InitDet /\ [][NextUploads]_vars

----------------------------------------------------------------------------
(* callOpenAIWithRetries called with any number of attempts *)

\* the values of the parameter attempts tried
CallAttempts == {-1, 0, 1, 2, 3}

\* the values of the parameter baseDelay tried
CallBaseDelays == {0, AnalyzeBaseDelay}

\* callOpenAIWithRetries(payload, attempts, baseDelay) called at the handler's
\* call site, for the example text, with other arguments than the handler's
CallWith(r, attempts, baseDelay) ==
    /\ pc[r] = "idle"
    /\ ~USE_MOCK
    /\ reqText' = [reqText EXCEPT ![r] = ExampleText]
    /\ \E k \in {extractKeywords(ExampleText)} :
            /\ reqKw' = [reqKw EXCEPT ![r] = Defined(k)]
            /\ StartCall(r, attempts, baseDelay, ExampleText, k)
    /\ VocabularyFrozen
    /\ UNCHANGED <<env, uploadsDir, upload, extractor, provLog, waits, arg, ret, elsewhere>>

\* the provider answers the pending fetch of request r, or the fetch throws
FetchSettles(r) ==
    \/ \E status \in Statuses : \E jitter \in Jitters :
            ProviderResponds(r, status, IF IsOk(status) THEN BodyEmptyObject ELSE ErrorBody,
                             jitter)
    \/ \E jitter \in Jitters : FetchThrows(r, jitter)

NextCall ==
    \/ \E attempts \in CallAttempts : \E baseDelay \in CallBaseDelays :
            CallWith(1, attempts, baseDelay)
    \/ FetchSettles(1)
    \/ BackoffElapsed(1)

\* One call, with a provider that settles every fetch and timers that fire
SpecCall ==
    /\ Init
    /\ [][NextCall]_vars
    /\ WF_vars(FetchSettles(1))
    /\ WF_vars(BackoffElapsed(1))

----------------------------------------------------------------------------
(* The same uploads sent to /api/parse and to /api/analyze *)

\* request 1 is a /api/parse request and request 2 a /api/analyze request in
\* mock mode, each with any of the files of ParseFiles
NextDispatch ==
    \/ \E input \in ParseInputs : Parse(1, input)
    \/ ParseExtractionDone(1)
    \/ \E f \in ParseFiles : Analyze(2, [file |-> Defined(f), text |-> Undefined])
    \/ ExtractionDone(2)

SpecDispatch == InitDet /\ [][NextDispatch]_vars

----------------------------------------------------------------------------
(* Concurrent /api/parse and /api/analyze requests with a provider *)

InitIso == Init /\ ~USE_MOCK

\* the /api/analyze requests made: one text, pasted and as a DOCX
IsoAnalyzeInputs ==
    {input \in AnalyzeInputs :
        \/ input.text = Defined(ExampleText)
        \/ /\ IsDefined(input.file)
           /\ input.file[1].mimetype = "application/msword"
           /\ input.file[1].content = Defined(ExampleText)}

\* the /api/parse requests made: the same text as a PDF, another as a text file
IsoParseInputs ==
    {input \in ParseInputs :
        /\ IsDefined(input.file)
        /\ \/ input.file[1].originalname = <<"c","v",".","p","d","f">>
           \/ input.file[1].originalname = <<"c","v",".","t","x","t">>}

\* the provider answers 200 with `{}`, or 500
NextIso ==
    \/ \E r \in Reqs : \E input \in IsoAnalyzeInputs : Analyze(r, input)
    \/ \E r \in Reqs : ExtractionDone(r)
    \/ \E r \in Reqs : \E status \in {200, 500} :
            ProviderResponds(r, status, IF IsOk(status) THEN BodyEmptyObject ELSE ErrorBody, 0)
    \/ \E r \in Reqs : BackoffElapsed(r)
    \/ \E r \in Reqs : \E input \in IsoParseInputs : Parse(r, input)
    \/ \E r \in Reqs : ParseExtractionDone(r)

\* NumReqs requests of both kinds, interleaved at their awaits. The timers and
\* the parsers of request 2 are sure to settle; nothing is assumed of the
\* other requests, which may stay where they are for ever
SpecIso ==
    /\ InitIso
    /\ [][NextIso]_vars

----------------------------------------------------------------------------
(* Properties *)

\* the response body of request r
BodyOf(r) == resp[r][1].body

\* the value of the property key in the response body of request r
Sent(r, key) == GetProperty(BodyOf(r), key)

\* callOpenAIWithRetries has returned to the handler of request r
Returned(r) == pc[r] = "done" /\ IsDefined(outcome[r])

\* a provider answer that the client retries after
RetryableFailure(status) ==
    status = 429 \/ status \in 500..599 \/ status = NetworkError

\* a provider answer that is a definite error
TerminalFailure(status) ==
    status # NetworkError /\ status \notin 200..299 /\ status # 429 /\ status \notin 500..599

\* the heuristic score of the text of request r and its keyword profile
BaselineOf(r) == estimateAtsScoreFromText(Defined(reqText[r]), reqKw[r])

\* C1 (retry bound): while the provider has answered every call with HTTP 500,
\* the client has issued at most maxAttempts calls; once it has returned it has
\* issued exactly maxAttempts calls, has returned ok = false, and the request has
\* been answered successfully with the degraded, keyword-only result.
C1_RetryBound ==
    (provLog[1] # <<>> /\ \A k \in DOMAIN provLog[1] : provLog[1][k] = 500) =>
        /\ fetches[1] <= call[1].attempts
        /\ call[1].attempts = AnalyzeAttempts
        /\ pc[1] \in {"attempting", "backoff", "done"}
        /\ pc[1] = "done" =>
            /\ fetches[1] = call[1].attempts
            /\ Len(provLog[1]) = call[1].attempts
            /\ IsDefined(outcome[1]) /\ ~outcome[1][1].ok
            /\ resp[1][1].status \in 200..299
            /\ IsDefined(Sent(1, K_error))
            /\ IsDefined(Sent(1, K_atsScore)) /\ IsDefined(Sent(1, K_keywords))
            /\ ~IsDefined(Sent(1, K_suggestions)) /\ ~IsDefined(Sent(1, K_raw))

C1_Witness ==
    /\ pc[1] = "done"
    /\ provLog[1] = [k \in 1..AnalyzeAttempts |-> 500]
    /\ fetches[1] = AnalyzeAttempts
    /\ resp[1][1].status = 200

\* C2 (no retry on terminal errors): a provider answer with a status that is not
\* 2xx, not 429 and not 5xx is the last one, at whatever attempt it comes: the
\* client has returned ok = false with that status and the answer's body, no call
\* was issued after it, and the only waits are those of the attempts before it.
C2_NoRetryOnTerminal ==
    \A k \in DOMAIN provLog[1] :
        TerminalFailure(provLog[1][k]) =>
            /\ k = Len(provLog[1])
            /\ fetches[1] = k
            /\ waits[1] = k - 1
            /\ pc[1] = "done"
            /\ outcome[1] = Defined([ok |-> FALSE, text |-> ErrorBody, status |-> provLog[1][k]])

C2_Witness ==
    /\ pc[1] = "done"
    /\ provLog[1] = <<500, NetworkError, 401>>
    /\ fetches[1] = 3
    /\ waits[1] = 2

\* C3 (heuristic fallback): when all maxAttempts calls failed with 429, a 5xx or
\* a transport exception, in any mix, the request is answered with status 200,
\* an atsScore equal to estimateAtsScoreFromText(text, kw) and the keywords,
\* skillsFound and topTokens of the keyword profile.
C3_HeuristicFallback ==
    (/\ Returned(1)
     /\ Len(provLog[1]) = call[1].attempts
     /\ \A k \in DOMAIN provLog[1] : RetryableFailure(provLog[1][k])) =>
        /\ resp[1][1].status = 200
        /\ Sent(1, K_atsScore) = Defined(JInteger(BaselineOf(1)))
        /\ Sent(1, K_keywords) = Defined(JStrings(reqKw[1][1].keywords))
        /\ Sent(1, K_skillsFound) = Defined(JStrings(reqKw[1][1].skillsFound))
        /\ Sent(1, K_topTokens) = Defined(JStrings(reqKw[1][1].topTokens))
        /\ reqKw[1][1] = extractKeywords(reqText[1])

C3_Witness ==
    /\ Returned(1)
    /\ Len(provLog[1]) = AnalyzeAttempts
    /\ {429, 500, 599, NetworkError} \subseteq Range(provLog[1])
    /\ resp[1][1].status = 200
    /\ reqText[1] = ExampleText

\* an integer from 0 to 100
IsScore(v) == v.t = "number" /\ v.kind = "finite" /\ v.n % 1000 = 0 /\ v.n \div 1000 \in 0..100

\* C4 (as claimed): every response with a 2xx status carries an atsScore that is
\* an integer from 0 to 100.
C4_ScoreInEveryResult ==
    (pc[1] = "done" /\ resp[1][1].status \in 200..299) =>
        /\ IsDefined(Sent(1, K_atsScore))
        /\ IsScore(Sent(1, K_atsScore)[1])

\* the provider answers 200 with a JSON array, and the response has no atsScore
C4_Witness ==
    /\ Returned(1)
    /\ outcome[1][1].ok
    /\ outcome[1][1].text = BodyArray
    /\ resp[1][1].status = 200
    /\ ~IsDefined(Sent(1, K_atsScore))

\* C5 (as claimed): whatever body comes with a 2xx status, the request is
\* answered with a 2xx status and a body that has atsScore, keywords,
\* skillsFound and topTokens.
C5_NormalizerTotal ==
    (Returned(1) /\ outcome[1][1].ok) =>
        /\ resp[1][1].status \in 200..299
        /\ \A key \in {K_atsScore, K_keywords, K_skillsFound, K_topTokens} :
               IsDefined(Sent(1, key))

\* the provider answers 200 with the JSON number 5, and the request fails
C5_Witness ==
    /\ Returned(1)
    /\ outcome[1][1].ok
    /\ outcome[1][1].text = BodyNumber
    /\ resp[1][1].status = 500

\* n (in thousandths) clamped into [0, 100] and rounded to the nearest integer
ClampedRounded(n) ==
    IF n < 0 THEN 0 ELSE IF n > 100 * 1000 THEN 100 ELSE (n + 500) \div 1000

\* C6 (as claimed): when the provider's body parses to an object, the atsScore
\* sent is the heuristic baseline if the object's atsScore is absent, is not a
\* number or is not finite, and otherwise the object's atsScore clamped into
\* [0, 100] and rounded.
C6_ScoreNormalization ==
    (Returned(1) /\ outcome[1][1].ok /\ ParsedBody(outcome[1][1].text).t = "object") =>
        LET given == GetProperty(ParsedBody(outcome[1][1].text), K_atsScore)
        IN  IF ~IsDefined(given) \/ given[1].t # "number" \/ given[1].kind # "finite"
            THEN Sent(1, K_atsScore) = Defined(JInteger(BaselineOf(1)))
            ELSE Sent(1, K_atsScore) = Defined(JInteger(ClampedRounded(given[1].n)))

\* the provider's atsScore is the empty string, and the score sent is 0
C6_Witness ==
    /\ Returned(1)
    /\ outcome[1][1].ok
    /\ outcome[1][1].text = BodyScoreEmptyString
    /\ Sent(1, K_atsScore) = Defined(JInteger(0))
    /\ BaselineOf(1) # 0

\* C7 (terminal errors are surfaced): when the client returned ok = false with a
\* status that is not 429 and not 5xx, the request is answered with an error
\* status, a body that names the error and carries the provider's status, and
\* no atsScore, keywords, skillsFound or topTokens.
C7_TerminalSurfaced ==
    (Returned(1) /\ ~outcome[1][1].ok /\ TerminalFailure(outcome[1][1].status)) =>
        /\ resp[1][1].status \in 400..599
        /\ IsDefined(Sent(1, K_error))
        /\ Sent(1, K_status) = Defined(JInteger(outcome[1][1].status))
        /\ \A key \in {K_atsScore, K_keywords, K_skillsFound, K_topTokens} :
               ~IsDefined(Sent(1, key))

C7_Witness ==
    /\ Returned(1)
    /\ outcome[1][1].status = 401
    /\ resp[1][1].status = 502
    /\ Sent(1, K_status) = Defined(JInteger(401))

\* the helper called directly is fn
Called(fn) == IsDefined(arg) /\ arg[1].fn = fn /\ IsDefined(ret)

\* C8 (score bound): whatever the text and the keyword profile, undefined ones
\* included, estimateAtsScoreFromText returns an integer from 30 to 95.
C8_EstimateBound ==
    Called("estimateAtsScoreFromText") => ret[1] \in 30..95

\* both length bonuses and the three keyword bonuses apply
C8_Witness ==
    /\ Called("estimateAtsScoreFromText")
    /\ IsDefined(arg[1].text) /\ Len(SplitWhitespace(arg[1].text[1])) > 300
    /\ IsDefined(arg[1].kw) /\ Len(arg[1].kw[1].keywords) > 15
    /\ ret[1] = 90

\* the k-th entry of a, counting first occurrences only (k from 1)
FirstSeen(a, k) ==
    a[CHOOSE i \in DOMAIN a :
        /\ \A j \in 1..(i - 1) : a[j] # a[i]
        /\ Cardinality({h \in 1..i : \A j \in 1..(h - 1) : a[j] # a[h]}) = k]

\* C9 (dedup invariant): the keywords extractKeywords returns have no duplicate,
\* are at most 30, and are the matched skills followed by the top tokens, each
\* entry at its first-seen position, cut after the 30th.
C9_KeywordsDeduplicated ==
    Called("extractKeywords") =>
        LET keywords == ret[1].keywords
            combined == ret[1].skillsFound \o ret[1].topTokens
            distinct == Cardinality(Range(combined))
        IN  /\ \A i, j \in DOMAIN keywords : i # j => keywords[i] # keywords[j]
            /\ Len(keywords) <= 30
            /\ Len(keywords) = Min(distinct, 30)
            /\ \A k \in DOMAIN keywords : keywords[k] = FirstSeen(combined, k)

\* more than 30 distinct skills and tokens: the list is cut
C9_Witness ==
    /\ Called("extractKeywords")
    /\ Len(ret[1].skillsFound) > 1
    /\ Len(ret[1].topTokens) > 1
    /\ Len(ret[1].skillsFound) + Len(ret[1].topTokens) > 30
    /\ Len(ret[1].keywords) = 30

\* C10 (determinism): two requests with the same text get the same keywords,
\* skillsFound, topTokens and atsScore, whatever other requests ran before,
\* between and after them.
C10_Deterministic ==
    \A r1, r2 \in Reqs :
        (/\ pc[r1] = "done" /\ pc[r2] = "done"
         /\ IsDefined(reqKw[r1]) /\ IsDefined(reqKw[r2])
         /\ reqText[r1] = reqText[r2]) =>
            /\ reqKw[r1] = reqKw[r2]
            /\ \A key \in {K_atsScore, K_keywords, K_skillsFound, K_topTokens} :
                   /\ IsDefined(Sent(r1, key))
                   /\ Sent(r1, key) = Sent(r2, key)

\* two requests with the example text and one with another text are answered
C10_Witness ==
    /\ \A r \in Reqs : pc[r] = "done" /\ IsDefined(reqKw[r])
    /\ reqText[1] = ExampleText
    /\ reqText[2] = ManySkillsText
    /\ reqText[NumReqs] = ExampleText
    /\ Sent(1, K_keywords) = Sent(NumReqs, K_keywords)
    /\ Len(reqKw[1][1].keywords) > 1

\* C11 (as claimed): for the example sentence skillsFound contains "react",
\* "node.js" and "aws", and for every text each vocabulary skill that is one of
\* the text's words as written, in whatever case, is in skillsFound.
C11_SkillsAsWritten ==
    Called("extractKeywords") =>
        /\ arg[1].text = ExampleText =>
               {<<"r","e","a","c","t">>, <<"n","o","d","e",".","j","s">>, <<"a","w","s">>}
                   \subseteq Range(ret[1].skillsFound)
        /\ \A w \in Range(SplitWhitespace(arg[1].text)) :
               Str(LowerCased(w)) \in Range(SKILLS_LIST) =>
                   LowerCased(w) \in Range(ret[1].skillsFound)

\* the example sentence yields react, node and aws: "node.js" is not reported
C11_Witness ==
    /\ Called("extractKeywords")
    /\ arg[1].text = ExampleText
    /\ ret[1].skillsFound = << <<"r","e","a","c","t">>, <<"n","o","d","e">>, <<"a","w","s">> >>

\* C12 (as claimed): /api/parse answers every upload with a successful
\* extracted-text result (a text and the three lists), never with an error
\* response, whichever parser is selected and whether or not it fails.
C12_ParserFailureContained ==
    \A r \in Reqs :
        (pc[r] = "parsed" /\ resp[r][1].status # 400) =>
            /\ resp[r][1].status = 200
            /\ \A key \in {K_text, K_keywords, K_skillsFound, K_topTokens} :
                   IsDefined(Sent(r, key))

\* the DOCX parser threw and the request was answered with status 500
C12_Witness ==
    /\ pc[1] = "parsed"
    /\ resp[1] = Defined(FailedToParse("Could not find file in options"))

\* C13 (empty document): when the text extracted for a /api/parse request is
\* empty or only whitespace (the request was answered, and not with the 400 of
\* a missing file or the 500 of a parser that threw), the answer has status
\* 200, text "", keywords, skillsFound and topTokens [] and a message, and
\* extractKeywords was not run.
C13_EmptyDocument ==
    \A r \in Reqs :
        (/\ pc[r] = "parsed"
         /\ resp[r][1].status \notin {400, 500}
         /\ \A k \in DOMAIN reqText[r] : IsWhitespace(reqText[r][k])) =>
            /\ resp[r][1].status = 200
            /\ Sent(r, K_text) = Defined(JString(<<>>))
            /\ \A key \in {K_keywords, K_skillsFound, K_topTokens} :
                   Sent(r, key) = Defined(JArray(<<>>, <<>>))
            /\ IsDefined(Sent(r, K_message))
            /\ reqKw[r] = Undefined

\* a blank document and an empty one have been answered
C13_Witness ==
    /\ pc[1] = "parsed" /\ reqText[1] = WhitespaceText
    /\ pc[2] = "parsed" /\ reqText[2] = <<>>
    /\ resp[1] = Defined(NoExtractableText)
    /\ resp[2] = Defined(NoExtractableText)

\* C14 (AI mode disabled): with OPENAI_MOCK "true" or no API key, /api/analyze
\* issues no provider call, and a text that passes the length test is answered
\* with status 200, the heuristic score as atsScore and the keywords,
\* skillsFound and topTokens of the text's keyword profile.
C14_MockModeLocal ==
    (env.OPENAI_MOCK = "true" \/ env.OPENAI_API_KEY = "") =>
        /\ fetches[1] = 0 /\ provLog[1] = <<>> /\ waits[1] = 0
        /\ pc[1] \notin {"attempting", "backoff"}
        /\ (pc[1] = "done" /\ resp[1][1].status \notin {400, 500}) =>
            /\ resp[1][1].status = 200
            /\ reqKw[1] = Defined(extractKeywords(reqText[1]))
            /\ Sent(1, K_atsScore) = Defined(JInteger(BaselineOf(1)))
            /\ Sent(1, K_keywords) = Defined(JStrings(reqKw[1][1].keywords))
            /\ Sent(1, K_skillsFound) = Defined(JStrings(reqKw[1][1].skillsFound))
            /\ Sent(1, K_topTokens) = Defined(JStrings(reqKw[1][1].topTokens))

\* no API key is configured and the example sentence has been analysed
C14_Witness ==
    /\ env = [OPENAI_MOCK |-> "false", OPENAI_API_KEY |-> ""]
    /\ pc[1] = "done"
    /\ reqText[1] = ExampleText
    /\ resp[1][1].status = 200
    /\ fetches[1] = 0

\* One /api/analyze request with what the runtime guarantees: a timer set by
\* sleep(delay) fires and a document parser settles. Nothing bounds the time
\* the provider takes to answer: fetch is called without a timeout or an
\* abort signal, so no fairness is stated for the provider's answers.
SpecLive ==
    /\ Init
    /\ [][Next]_vars
    /\ WF_vars(BackoffElapsed(1))
    /\ WF_vars(ExtractionDone(1))

\* C15 (as claimed): a request whose provider attempt is in flight is
\* eventually answered, even if the provider never answers that attempt.
C15_AnsweredDespiteSilentProvider ==
    (pc[1] = "attempting") ~> (pc[1] = "done")

\* the first attempt is in flight and the provider has not answered
C15_Witness ==
    /\ pc[1] = "attempting"
    /\ fetches[1] = 1
    /\ provLog[1] = <<>>
    /\ resp[1] = Undefined

\* C16 (as claimed): in every successful answer of /api/analyze that has
\* rewrittenBullets, it is an array of at most 6 entries.
C16_AtMostSixBullets ==
    (pc[1] = "done" /\ resp[1][1].status \in 200..299
     /\ IsDefined(Sent(1, K_rewrittenBullets))) =>
        /\ Sent(1, K_rewrittenBullets)[1].t = "array"
        /\ Len(Sent(1, K_rewrittenBullets)[1].items) <= 6

\* the provider sent seven bullets and all seven are in the answer
C16_Witness ==
    /\ Returned(1)
    /\ outcome[1][1].ok
    /\ outcome[1][1].text = BodySevenBullets
    /\ resp[1][1].status = 200
    /\ Len(Sent(1, K_rewrittenBullets)[1].items) = 7

\* all that request q owns
Slot(q) ==
    <<pc[q], upload[q], extractor[q], reqText[q], reqKw[q], call[q], fetches[q], provLog[q],
      waits[q], outcome[q], resp[q]>>

\* the answer of every answered request is made of its own text and of what the
\* provider answered to it: its profile is that of its text, the lists of a 200
\* answer are those of that profile, and requests of the same kind with the
\* same text and the same provider outcome have the same answer
OwnResults ==
    /\ \A r \in Reqs :
        (pc[r] \in {"done", "parsed"} /\ IsDefined(reqKw[r])) =>
            /\ reqKw[r] = Defined(extractKeywords(reqText[r]))
            /\ resp[r][1].status = 200 =>
                /\ Sent(r, K_keywords) = Defined(JStrings(reqKw[r][1].keywords))
                /\ Sent(r, K_skillsFound) = Defined(JStrings(reqKw[r][1].skillsFound))
                /\ Sent(r, K_topTokens) = Defined(JStrings(reqKw[r][1].topTokens))
            /\ (resp[r][1].status = 200 /\ pc[r] = "done") =>
                Sent(r, K_atsScore) = Defined(JInteger(BaselineOf(r)))
    /\ \A r1, r2 \in Reqs :
        (/\ pc[r1] = pc[r2] /\ pc[r1] \in {"done", "parsed"}
         /\ reqText[r1] = reqText[r2]
         /\ outcome[r1] = outcome[r2]
         /\ resp[r1][1].status \notin {400, 500} /\ resp[r2][1].status \notin {400, 500}) =>
            resp[r1] = resp[r2]

\* the next step of the handler of request q can be taken
CanProceed(q) ==
    /\ pc[q] = "idle" => /\ \A input \in IsoAnalyzeInputs : ENABLED Analyze(q, input)
                         /\ \A input \in IsoParseInputs : ENABLED Parse(q, input)
    /\ pc[q] = "extracting" => ENABLED ExtractionDone(q)
    /\ pc[q] = "parsing" => ENABLED ParseExtractionDone(q)
    /\ pc[q] = "attempting" => \A status \in {200, 500} :
                                   ENABLED ProviderResponds(q, status, BodyEmptyObject, 0)
    /\ pc[q] = "backoff" => ENABLED BackoffElapsed(q)

\* C17 (request isolation): in any interleaving of /api/parse and
\* /api/analyze requests, the stop-word set and the skill vocabulary stay as
\* loaded, every answer sent is made of the request's own text and provider
\* outcome, a request that waits in backoff leaves every other request able to
\* take its next step, and each step changes the data of one request only.
C17_RequestIsolation ==
    /\ [](/\ COMMON_STOPWORDS = StopwordsAtLoad /\ SKILLS_LIST = SkillsAtLoad
          /\ OwnResults
          /\ \A r \in Reqs : pc[r] = "backoff" => \A q \in Reqs \ {r} : CanProceed(q))
    /\ [][\E r \in Reqs : \A q \in Reqs \ {r} : Slot(q)' = Slot(q)]_vars

\* while request 1 waits in backoff, an analysis of the same text and a parse
\* of another text have been answered
C17_Witness ==
    /\ pc[1] = "backoff" /\ reqText[1] = ExampleText
    /\ pc[2] = "done" /\ reqText[2] = ExampleText /\ resp[2][1].status = 200
    /\ pc[NumReqs] = "parsed" /\ reqText[NumReqs] = ManySkillsText
    /\ Len(provLog[2]) > 1
    /\ COMMON_STOPWORDS = StopwordsAtLoad

\* C18 (a 2xx ends the call): when attempt i is answered with a 2xx, whatever
\* retryable failures came before, callOpenAIWithRetries returns at that step
\* ok = true with the body and the status of that answer; i calls have been
\* made and i - 1 waits, and no call and no wait follows the return.
C18_SuccessEndsCall ==
    /\ [](\A r \in Reqs :
            (provLog[r] # <<>> /\ provLog[r][Len(provLog[r])] \in 200..299) =>
                /\ Returned(r)
                /\ outcome[r][1].ok /\ outcome[r][1].status = provLog[r][Len(provLog[r])]
                /\ fetches[r] = Len(provLog[r])
                /\ waits[r] = Len(provLog[r]) - 1
                /\ \A k \in 1..(Len(provLog[r]) - 1) : RetryableFailure(provLog[r][k]))
    /\ [][\A r \in Reqs :
            /\ \A body \in OkBodies :
                    ProviderResponds(r, 200, body, 0) =>
                        outcome'[r] = Defined([ok |-> TRUE, text |-> body, status |-> 200])
            /\ Returned(r) =>
                    /\ Returned(r)' /\ outcome'[r] = outcome[r]
                    /\ fetches'[r] = fetches[r] /\ waits'[r] = waits[r]
                    /\ provLog'[r] = provLog[r]
          ]_vars

\* a 2xx at the third attempt, after two retryable failures
C18_Witness ==
    /\ Returned(1) /\ outcome[1][1].ok
    /\ Len(provLog[1]) = 3 /\ provLog[1][3] = 200
    /\ fetches[1] = 3 /\ waits[1] = 2
    /\ outcome[1][1].text = BodyScoreHalf

\* C19 (waits only between attempts): a call suspends in backoff only while
\* an attempt is left, so a request is never in backoff once maxAttempts calls
\* have been made, and one call performs at most maxAttempts - 1 waits.
C19_WaitsOnlyBetweenAttempts ==
    \A r \in Reqs :
        /\ pc[r] = "backoff" => fetches[r] < call[r].attempts
        /\ IsDefined(reqKw[r]) /\ ~USE_MOCK => waits[r] <= AnalyzeAttempts - 1

\* the last attempt has failed and the call is suspended once more
C19_Witness ==
    /\ pc[1] = "backoff"
    /\ fetches[1] = AnalyzeAttempts /\ call[1].i = AnalyzeAttempts - 1
    /\ waits[1] = AnalyzeAttempts
    /\ call[1].delay >= AnalyzeBaseDelay * Pow2(AnalyzeAttempts - 1)

\* C20 (exhausted outcome): when every attempt has failed with an HTTP status
\* that is retried, the outcome callOpenAIWithRetries returns carries the
\* status and the body of the last failed attempt.
C20_ExhaustedCarriesLastFailure ==
    \A r \in Reqs :
        (/\ Returned(r)
         /\ Len(provLog[r]) = AnalyzeAttempts
         /\ \A k \in DOMAIN provLog[r] : RetryableFailure(provLog[r][k])
         /\ provLog[r][AnalyzeAttempts] # NetworkError) =>
            /\ outcome[r][1].status = provLog[r][AnalyzeAttempts]
            /\ outcome[r][1].text = ErrorBody

\* a provider that always answers 500: the outcome says 429 and its text is
\* the message built from the last status and body
C20_Witness ==
    /\ Returned(1)
    /\ provLog[1] = [k \in 1..AnalyzeAttempts |-> 500]
    /\ outcome[1][1] = [ok |-> FALSE, status |-> 429,
                        text |-> <<"status=", "500", " body=">> \o ErrorBody]

\* the least wait after the i-th failed attempt (i from 1): the base delay,
\* doubled at every further attempt
RECURSIVE LeastWait(_)
LeastWait(i) == IF i = 1 THEN AnalyzeBaseDelay ELSE 2 * LeastWait(i - 1)

\* C21 (exponential backoff): the wait that follows the i-th failed attempt is
\* baseDelay * 2^(i-1) plus a jitter from 0 to 299 ms: it is never below the
\* base delay doubled i - 1 times and stays less than 300 ms above it.
C21_ExponentialBackoff ==
    \A r \in Reqs :
        pc[r] = "backoff" =>
            /\ waits[r] = call[r].i + 1
            /\ call[r].delay >= LeastWait(waits[r])
            /\ call[r].delay < LeastWait(waits[r]) + 300
            /\ LeastWait(waits[r]) = call[r].baseDelay * Pow2(waits[r] - 1)

\* the wait after the fourth failed attempt, with the greatest jitter
C21_Witness ==
    /\ pc[1] = "backoff"
    /\ waits[1] = 4
    /\ call[1].delay = 6400 + 299

\* the number of whitespace-separated words of a text
WordCount(text) ==
    Cardinality({k \in 1..Len(text) :
                    ~IsWhitespace(text[k]) /\ (k = 1 \/ IsWhitespace(text[k - 1]))})

\* how many of the thresholds n exceeds
Exceeded(n, thresholds) == Cardinality({t \in thresholds : n > t})

\* C22 (score formula): estimateAtsScoreFromText(text, profile) is 40, plus 10
\* for each of 150 and 300 that the word count of text exceeds, plus 10 for
\* each of 5, 10 and 15 that the number of keywords of profile exceeds, brought
\* into 30..95; a missing text has no word and a missing profile no keyword.
C22_ScoreFormula ==
    Called("estimateAtsScoreFromText") =>
        LET wordCount == IF IsDefined(arg[1].text) THEN WordCount(arg[1].text[1]) ELSE 0
            keywordCount == IF IsDefined(arg[1].kw) THEN Len(arg[1].kw[1].keywords) ELSE 0
            sum == 40 + 10 * Exceeded(wordCount, {150, 300})
                      + 10 * Exceeded(keywordCount, {5, 10, 15})
        IN  ret[1] = IF sum < 30 THEN 30 ELSE IF sum > 95 THEN 95 ELSE sum

\* exactly 300 words and exactly 10 keywords: one bonus of each kind
C22_Witness ==
    /\ Called("estimateAtsScoreFromText")
    /\ IsDefined(arg[1].text) /\ WordCount(arg[1].text[1]) = 300
    /\ IsDefined(arg[1].kw) /\ Len(arg[1].kw[1].keywords) = 10
    /\ ret[1] = 60

\* what parsing the part of body from its first '{' to its last '}' gives,
\* Undefined when there is no such part or it is not JSON
BracedPart(body) ==
    LET opens == {k \in 1..Len(body) : body[k] = "{"}
        closes == {k \in 1..Len(body) : body[k] = "}"}
        first == CHOOSE k \in opens : \A k2 \in opens : k <= k2
        last == CHOOSE k \in closes : \A k2 \in closes : k >= k2
    IN  IF opens = {} \/ closes = {} THEN Undefined
        ELSE IF last < first THEN Undefined
        ELSE JSONparse(SubSeq(body, first, last))

\* the answer to request r is a 200 that carries, unchanged, every field of the
\* object v other than the four normalised ones, and no raw text
FieldsReturned(r, v) ==
    /\ resp[r][1].status = 200
    /\ ~IsDefined(Sent(r, K_raw))
    /\ \A k \in 1..Len(v.entries) :
            v.entries[k][1] \notin {K_atsScore, K_keywords, K_skillsFound, K_topTokens} =>
                Sent(r, v.entries[k][1]) = Defined(v.entries[k][2])

\* C23 (layered JSON extraction): for a 2xx body, a body that is a JSON object
\* is used as it is; when the body is not JSON, the part from its first '{' to
\* its last '}' is parsed and that object's fields are returned; when that
\* fails too, the answer is the keyword-only result, with the baseline as
\* atsScore and the provider's text under raw.
C23_LayeredExtraction ==
    (Returned(1) /\ outcome[1][1].ok) =>
        LET body == outcome[1][1].text
            strict == JSONparse(body)
            braced == BracedPart(body)
        IN  /\ (IsDefined(strict) /\ strict[1].t = "object") => FieldsReturned(1, strict[1])
            /\ (~IsDefined(strict) /\ IsDefined(braced)) => FieldsReturned(1, braced[1])
            /\ (~IsDefined(strict) /\ ~IsDefined(braced)) =>
                    /\ resp[1][1].status = 200
                    /\ Sent(1, K_raw) = Defined(JString(body))
                    /\ Sent(1, K_atsScore) = Defined(JInteger(BaselineOf(1)))
                    /\ Sent(1, K_keywords) = Defined(JStrings(reqKw[1][1].keywords))
                    /\ Sent(1, K_skillsFound) = Defined(JStrings(reqKw[1][1].skillsFound))
                    /\ Sent(1, K_topTokens) = Defined(JStrings(reqKw[1][1].topTokens))

\* the object inside prose: its score and its topSkills are in the answer
C23_Witness ==
    /\ Returned(1)
    /\ outcome[1][1].ok
    /\ outcome[1][1].text = BodyInProse
    /\ ~IsDefined(JSONparse(BodyInProse))
    /\ resp[1][1].status = 200
    /\ Sent(1, K_atsScore) = Defined(JInteger(85))
    /\ Sent(1, K_topSkills) = Defined(JArray(<<JString(<<"x">>)>>, <<>>))

\* C24 (backfill): when the body of a 2xx answer is a JSON object, each of
\* keywords, skillsFound and topTokens that the object lacks is sent with the
\* value of the request's keyword profile, and every field the object has,
\* atsScore apart, is sent with the value the provider gave it.
C24_BackfillKeepsSupplied ==
    (Returned(1) /\ outcome[1][1].ok /\ IsDefined(JSONparse(outcome[1][1].text))
     /\ JSONparse(outcome[1][1].text)[1].t = "object") =>
        LET given == JSONparse(outcome[1][1].text)[1]
        IN  /\ resp[1][1].status = 200
            /\ ~IsDefined(GetProperty(given, K_keywords)) =>
                    Sent(1, K_keywords) = Defined(JStrings(reqKw[1][1].keywords))
            /\ ~IsDefined(GetProperty(given, K_skillsFound)) =>
                    Sent(1, K_skillsFound) = Defined(JStrings(reqKw[1][1].skillsFound))
            /\ ~IsDefined(GetProperty(given, K_topTokens)) =>
                    Sent(1, K_topTokens) = Defined(JStrings(reqKw[1][1].topTokens))
            /\ \A k \in 1..Len(given.entries) :
                    given.entries[k][1] # K_atsScore =>
                        Sent(1, given.entries[k][1]) = Defined(given.entries[k][2])

\* the provider supplied keywords ["go"] and topTokens "": the keywords are
\* kept, the topTokens are replaced by the profile's
C24_Witness ==
    /\ Returned(1)
    /\ outcome[1][1].ok
    /\ outcome[1][1].text = BodyOwnKeywords
    /\ resp[1][1].status = 200
    /\ Sent(1, K_keywords) = Defined(JStrings(<< <<"g","o">> >>))
    /\ Sent(1, K_topTokens) = Defined(JStrings(reqKw[1][1].topTokens))
    /\ Sent(1, K_topTokens) # Defined(JString(<<>>))

\* how many of the tokens of text are the token t
Occurrences(text, t) ==
    LET tokens == tokenizeForKeywords(text)
    IN  Cardinality({k \in 1..Len(tokens) : tokens[k] = t})

\* C25 (topTokens): topTokens has at most 12 tokens, each longer than 2
\* characters, no stop-word and not all digits, in descending order of
\* frequency, and none of them is a word of a skill phrase that was matched.
C25_TopTokens ==
    Called("extractKeywords") =>
        LET topTokens == ret[1].topTokens
        IN  /\ Len(topTokens) <= 12
            /\ \A k \in 1..Len(topTokens) :
                    /\ Len(topTokens[k]) > 2
                    /\ Str(topTokens[k]) \notin StopwordsAtLoad
                    /\ ~AllDigits(topTokens[k])
                    /\ \A j \in 1..(k - 1) :
                            Occurrences(arg[1].text, topTokens[j])
                                >= Occurrences(arg[1].text, topTokens[k])
                    /\ \A j \in 1..Len(ret[1].skillsFound) :
                            topTokens[k] \notin Range(SplitWhitespace(ret[1].skillsFound[j]))

\* "machine learning" is matched and both of its words are top tokens
C25_Witness ==
    /\ Called("extractKeywords")
    /\ arg[1].text = Join(<< <<"m","a","c","h","i","n","e">>,
                             <<"l","e","a","r","n","i","n","g">> >>, <<" ">>)
    /\ ret[1].skillsFound = << <<"m","a","c","h","i","n","e"," ","l","e","a","r","n","i","n","g">> >>
    /\ ret[1].topTokens = << <<"m","a","c","h","i","n","e">>, <<"l","e","a","r","n","i","n","g">> >>

\* the windows of 1 to 3 consecutive tokens: <<start, size>>
WindowsOf(tokens) ==
    {w \in (1..Len(tokens)) \X (1..3) : w[1] + w[2] - 1 <= Len(tokens)}

\* the tokens of the window w, joined by single spaces
WindowPhrase(tokens, w) == Join(SubSeq(tokens, w[1], w[1] + w[2] - 1), <<" ">>)

\* the windows of tokens that read the phrase p
WindowsReading(tokens, p) == {w \in WindowsOf(tokens) : WindowPhrase(tokens, w) = p}

\* the start of the first window that reads p
FirstStart(tokens, p) ==
    CHOOSE i \in 1..Len(tokens) :
        /\ \E w \in WindowsReading(tokens, p) : w[1] = i
        /\ \A w \in WindowsReading(tokens, p) : w[1] >= i

\* C26 (skillsFound): skillsFound lists, once each, the vocabulary phrases that
\* a window of 1 to 3 consecutive tokens reads, in descending order of the
\* number of such windows; of two skills with the same number the one whose
\* first window starts earlier in the text comes first.
C26_SkillsRanked ==
    Called("extractKeywords") =>
        LET tokens == tokenizeForKeywords(arg[1].text)
            skills == ret[1].skillsFound
            matched == {WindowPhrase(tokens, w) : w \in
                            {v \in WindowsOf(tokens) :
                                Str(WindowPhrase(tokens, v)) \in Range(SkillsAtLoad)}}
            Count(p) == Cardinality(WindowsReading(tokens, p))
        IN  /\ Range(skills) = matched
            /\ Len(skills) = Cardinality(matched)
            /\ \A j, k \in 1..Len(skills) :
                    j < k =>
                        /\ Count(skills[j]) >= Count(skills[k])
                        /\ Count(skills[j]) = Count(skills[k]) =>
                                FirstStart(tokens, skills[j]) < FirstStart(tokens, skills[k])

\* "aws" is read twice and comes before "react-native", read once and earlier
C26_Witness ==
    /\ Called("extractKeywords")
    /\ arg[1].text = Join(<< <<"r","e","a","c","t","U+2013","n","a","t","i","v","e">>,
                             <<"A","W","S">>, <<"A","W","S">> >>, <<" ">>)
    /\ ret[1].skillsFound = << <<"a","w","s">>,
                               <<"r","e","a","c","t","-","n","a","t","i","v","e">> >>

\* the name ends in the extension ext, letter case apart
HasExtension(name, ext) ==
    /\ Len(name) >= Len(ext)
    /\ \A k \in 1..Len(ext) : toLowerCase(name[Len(name) - Len(ext) + k]) = ext[k]

\* the parser the dispatch rule gives a document of this name and MIME type
ParserByRule(originalname, mimetype) ==
    IF mimetype = "application/pdf" \/ HasExtension(originalname, <<".", "p", "d", "f">>)
    THEN "pdf"
    ELSE IF HasExtension(originalname, <<".", "d", "o", "c", "x">>) THEN "docx"
    ELSE "utf8"

\* C27 (extractor dispatch): a document is parsed as PDF iff its MIME type is
\* application/pdf or its name ends in .pdf (letter case apart), also when the
\* name ends in .docx; otherwise as DOCX iff its name ends in .docx; otherwise
\* it is read as UTF-8 text. One parser is invoked per document, and a file
\* gets the same parser from /api/parse and from /api/analyze.
C27_ExtractorDispatch ==
    /\ \A r \in Reqs :
            /\ Len(extractor[r]) <= 1
            /\ \A k \in 1..Len(extractor[r]) :
                    extractor[r][k].parser =
                        ParserByRule(extractor[r][k].originalname, extractor[r][k].mimetype)
            /\ pc[r] \in {"extracting", "parsing"} =>
                    /\ Len(extractor[r]) = 1
                    /\ extractor[r][1].parser \in {"pdf", "docx"}
                    /\ extractor[r][1].originalname = upload[r][1].originalname
    /\ pc[1] # "idle" => (Len(extractor[1]) = 1 \/ resp[1] = Defined(Response(400,
                            JObject(<< <<K_error, JText("No file uploaded.")>> >>))))
    /\ pc[2] # "idle" => Len(extractor[2]) = 1
    /\ \A k \in 1..Min(Len(extractor[1]), Len(extractor[2])) :
            (/\ extractor[1][k].originalname = extractor[2][k].originalname
             /\ extractor[1][k].mimetype = extractor[2][k].mimetype) =>
                extractor[1][k].parser = extractor[2][k].parser

\* cv.docx declared as application/pdf went to the PDF parser on both routes
C27_Witness ==
    /\ pc[1] = "parsed" /\ pc[2] = "done"
    /\ extractor[1] = <<[parser |-> "pdf", originalname |-> <<"c","v",".","d","o","c","x">>,
                         mimetype |-> "application/pdf"]>>
    /\ extractor[2] = extractor[1]

\* C28 (termination): callOpenAIWithRetries, called with any number of
\* attempts (0 and negative ones included) and a provider that settles every
\* fetch, returns an outcome; it has made at most `attempts` provider calls; it
\* returns ok = true only if a call was answered 2xx; with attempts <= 0 it
\* makes no call and returns the exhausted outcome.
C28_CallTerminates ==
    /\ [](pc[1] # "idle" =>
            /\ fetches[1] <= (IF call[1].attempts > 0 THEN call[1].attempts ELSE 0)
            /\ Len(provLog[1]) <= fetches[1]
            /\ (Returned(1) /\ outcome[1][1].ok) =>
                    \E k \in DOMAIN provLog[1] : provLog[1][k] \in 200..299
            /\ call[1].attempts <= 0 =>
                    /\ Returned(1)
                    /\ fetches[1] = 0
                    /\ outcome[1][1] = [ok |-> FALSE, text |-> <<"exhausted retries">>,
                                        status |-> 429])
    /\ (pc[1] \in {"attempting", "backoff"}) ~> Returned(1)

\* called with attempts = 0: returned at once, without a call
C28_Witness ==
    /\ Returned(1)
    /\ call[1].attempts = 0
    /\ fetches[1] = 0 /\ waits[1] = 0
    /\ ~outcome[1][1].ok /\ outcome[1][1].status = 429

\* a response has been sent to request r
Answered(r) == pc[r] \in {"done", "parsed", "applied"}

\* C29 (upload lifecycle): whenever a response has been sent to a request of
\* /api/parse, /api/analyze or /api/jobs/:jobId/apply, whatever its status,
\* the request's temporary upload is no longer in the uploads directory.
C29_UploadsCleaned ==
    \A r \in Reqs : Answered(r) => r \notin uploadsDir

\* an application without candidateName is answered 400 and its upload stays
C29_Witness ==
    /\ pc[NumReqs] = "applied"
    /\ IsDefined(applying[NumReqs][1].file)
    /\ resp[NumReqs][1].status = 400
    /\ NumReqs \in uploadsDir
    /\ NumReqs \notin resumesDir

\* C30 (user registry): after any sequence of register and login requests no
\* two stored users share an email, and the id of each user is its position
\* in the list, counted from 1.
C30_RegistryUnique ==
    \A i, j \in 1 .. Len(users) :
        /\ users[i].id = i
        /\ i # j => users[i].email # users[j].email

\* the same array-valued email has been registered twice, both times with 200
C30_Witness ==
    /\ Len(users) = 2
    /\ users[1].email = ArrayValue("ada@example.com")
    /\ users[2].email = users[1].email
    /\ authReq[1].route = "register"
    /\ authResp[1].status = 200

====
